---- MODULE Spec2Model ----
(***************************************************************************)
(* A model of the SQL quality gate of natural-language-sql-converter-v2:   *)
(* SQLValidator (services/sql_validator.py), QueryFeedbackService          *)
(* (services/query_feedback_service.py) and SQLServerService.execute_query *)
(* (services/sqlserver_service.py).                                        *)
(*                                                                         *)
(* Texts are TLA+ strings handled character by character; every Python     *)
(* string method and every regular expression the code uses is an operator *)
(* that computes what the Python computes.                                 *)
(***************************************************************************)
EXTENDS Integers, Sequences, FiniteSets, TLC

VARIABLES
    pc,                \* "idle" | "called" | "returned": where the current call is
    call,              \* the call in flight: operation, arguments, environment
    ret,               \* the value the last call returned
    feedback_history,  \* QueryFeedbackService.feedback_history
    db_log,            \* the calls the current call made to pyodbc: connect, cursor.execute
    PYODBC_AVAILABLE,  \* whether "import pyodbc" succeeded when the modules were loaded
    query_history_storage,  \* app.py: the records of the queries converted
    next_query_id,     \* app.py: the id of the next record
    requests           \* the /convert requests being served: where each is in add_query_to_history

vars ==
    <<pc, call, ret, feedback_history, db_log, PYODBC_AVAILABLE, query_history_storage, next_query_id, requests>>

---------------------------------------------------------------------------
(* Python str methods                                                      *)

LowerAlpha == "abcdefghijklmnopqrstuvwxyz"
UpperAlpha == "ABCDEFGHIJKLMNOPQRSTUVWXYZ"

CharAt(t, i) == SubSeq(t, i, i)

\* the characters of a text, as a set
Chars(t) == {CharAt(t, i) : i \in 1..Len(t)}

LowerChars == Chars(LowerAlpha)
UpperChars == Chars(UpperAlpha)
DigitChars == Chars("0123456789")
SpaceChars == {" ", "\n", "\t"}
WordChars == LowerChars \cup UpperChars \cup DigitChars \cup {"_"}

\* each letter's counterpart in the other case
UpperOf == [c \in LowerChars |-> CharAt(UpperAlpha, CHOOSE i \in 1..26 : CharAt(LowerAlpha, i) = c)] @@ <<>>
LowerOf == [c \in UpperChars |-> CharAt(LowerAlpha, CHOOSE i \in 1..26 : CharAt(UpperAlpha, i) = c)] @@ <<>>

upper_char(c) == IF c \in LowerChars THEN UpperOf[c] ELSE c

lower_char(c) == IF c \in UpperChars THEN LowerOf[c] ELSE c

\* str.upper(), by halves
RECURSIVE upper(_)
upper(t) ==
    IF Len(t) <= 1 THEN upper_char(t)
    ELSE LET half == Len(t) \div 2
         IN upper(SubSeq(t, 1, half)) \o upper(SubSeq(t, half + 1, Len(t)))

\* str.lower(), by halves
RECURSIVE lower(_)
lower(t) ==
    IF Len(t) <= 1 THEN lower_char(t)
    ELSE LET half == Len(t) \div 2
         IN lower(SubSeq(t, 1, half)) \o lower(SubSeq(t, half + 1, Len(t)))

\* the characters Python's str.strip() and the regex class \s remove or match
IsSpace(c) == c \in SpaceChars

IsDigit(c) == c \in DigitChars

\* the regex class \w
IsWord(c) == c \in WordChars

\* the first position from i on that does not hold a character of the class
RunEnd(t, i, class) ==
    CHOOSE j \in i..(Len(t) + 1) :
        /\ j = Len(t) + 1 \/ CharAt(t, j) \notin class
        /\ \A k \in i..(j - 1) : CharAt(t, k) \in class

\* the last position up to i that does not hold a character of the class
RunStart(t, i, class) ==
    CHOOSE j \in 0..i :
        /\ j = 0 \/ CharAt(t, j) \notin class
        /\ \A k \in (j + 1)..i : CharAt(t, k) \in class

\* str.strip()
strip(t) == SubSeq(t, RunEnd(t, 1, SpaceChars), RunStart(t, Len(t), SpaceChars))

\* whether sub occurs in t at position i
At(t, i, sub) == i >= 1 /\ i + Len(sub) - 1 <= Len(t) /\ SubSeq(t, i, i + Len(sub) - 1) = sub

\* the positions at which sub occurs in t
Occurrences(t, sub) == {i \in 1..(Len(t) - Len(sub) + 1) : SubSeq(t, i, i + Len(sub) - 1) = sub}

\* sub in t
contains(t, sub) == Occurrences(t, sub) # {}

\* str.startswith, str.endswith
startswith(t, sub) == At(t, 1, sub)

endswith(t, sub) == At(t, Len(t) - Len(sub) + 1, sub)

\* str.count for a single character
count(t, c) == Cardinality({i \in 1..Len(t) : CharAt(t, i) = c})

Max(a, b) == IF a >= b THEN a ELSE b

Least(a, b) == IF a <= b THEN a ELSE b

\* the smallest element of a non-empty set of positions
Min(S) == CHOOSE i \in S : \A j \in S : i <= j

\* the largest element of a non-empty set of positions
Largest(S) == CHOOSE i \in S : \A j \in S : i >= j

\* str.replace(old, new, 1): the first occurrence only, case-sensitive
replace_first(t, old, new) ==
    IF ~contains(t, old) THEN t
    ELSE LET i == Min(Occurrences(t, old))
         IN SubSeq(t, 1, i - 1) \o new \o SubSeq(t, i + Len(old), Len(t))

---------------------------------------------------------------------------
(* Regular expressions (re.search: a match may start anywhere). A pattern  *)
(* is evaluated left to right over sets of positions: each piece maps the  *)
(* positions where the match may stand to those after the piece.           *)

Anywhere(t) == 1..(Len(t) + 1)

\* a literal
Lit(t, P, sub) == {p + Len(sub) : p \in {q \in P : At(t, q, sub)}}

\* an alternation of literals
AnyLit(t, P, subs) == UNION {Lit(t, P, sub) : sub \in subs}

SpaceEnd(t, i) == RunEnd(t, i, SpaceChars)

WordEnd(t, i) == RunEnd(t, i, WordChars)

\* the position of the first newline from i on, or the position after the text
LineEnd(t, i) ==
    CHOOSE j \in i..(Len(t) + 1) :
        /\ j = Len(t) + 1 \/ CharAt(t, j) = "\n"
        /\ \A k \in i..(j - 1) : CharAt(t, k) # "\n"

\* \s*
WsStar(t, P) == UNION {p..SpaceEnd(t, p) : p \in P}

\* \s+
WsPlus(t, P) == UNION {(p + 1)..SpaceEnd(t, p) : p \in P}

\* .* (the dot does not match a newline)
DotStar(t, P) == UNION {p..LineEnd(t, p) : p \in P}

\* \d+
DigitPlus(t, P) == UNION {(p + 1)..RunEnd(t, p, DigitChars) : p \in P}

\* \w+
WordPlus(t, P) == UNION {(p + 1)..WordEnd(t, p) : p \in P}

\* [0-9]{lo,hi}
DigitsBetween(t, P, lo, hi) == UNION {(p + lo)..Least(p + hi, RunEnd(t, p, DigitChars)) : p \in P}

\* one character of a class given as a string of its members
OneOf(t, P, class) == {p + 1 : p \in {q \in P : q <= Len(t) /\ CharAt(t, q) \in Chars(class)}}

\* (\s|%20)*
RECURSIVE Ws20Star(_, _)
Ws20Star(t, P) ==
    LET N == P \cup OneOf(t, P, " \n\t") \cup Lit(t, P, "%20")
    IN IF N = P THEN P ELSE Ws20Star(t, N)

\* (\s|%20)+
Ws20Plus(t, P) == Ws20Star(t, OneOf(t, P, " \n\t") \cup Lit(t, P, "%20"))

\* \b before a word character: the positions of P not preceded by a word character
WordStart(t, P) == {p \in P : p = 1 \/ ~IsWord(CharAt(t, p - 1))}

\* a list with x appended when the condition holds
AppendIf(cond, list, x) == IF cond THEN Append(list, x) ELSE list

---------------------------------------------------------------------------
(* The submissions: the texts handed to the services                       *)

\* the texts concatenated from at most n of the fragments
RECURSIVE Texts(_, _)
Texts(fragments, n) ==
    IF n = 0 THEN {""}
    ELSE LET shorter == Texts(fragments, n - 1)
         IN shorter \cup {t \o f : t \in shorter, f \in fragments}

\* how many fragments a submitted text is made of, at most
MaxParts == 2

\* Python's None, for an argument that is not a text
None == "<None>"

ValidatorFragments ==
    {"SELECT id FROM t ", "with c as (select 1) ", "-- c\n", "/* c */", "DROP TABLE t", "(", "'", " "}

\* the texts submitted to validate_and_optimize
ValidatedTexts == Texts(ValidatorFragments, MaxParts) \cup {None}

FeedbackFragments ==
    {"SELECT id FROM users WHERE id = @id ", "select * from orders ", "WITH c AS (SELECT 1) ",
     "-- c\n", "UNION SELECT '; -- DROP TABLE x", "DROP TABLE users ", "("}

\* the texts submitted to analyze_query_quality and to execute_query
SubmittedTexts == Texts(FeedbackFragments, MaxParts) \cup {None}

NaturalLanguages ==
    {"", "show total sales this month", "retrieve, filter and sort the recent users", "retrieve the users"}

SchemaContexts == {"", "users(id, name) sales(total)"}

---------------------------------------------------------------------------
(* services/sql_validator.py                                               *)

\* is_read_only_query: re.sub(r'--.*?\n', '', t): every "--" up to and including
\* the next newline is removed; a "--" with no newline after it stays
RECURSIVE remove_line_comments(_)
remove_line_comments(t) ==
    LET starts == {i \in Occurrences(t, "--") : \E j \in (i + 2)..Len(t) : CharAt(t, j) = "\n"}
    IN IF starts = {} THEN t
       ELSE LET i == Min(starts)
                j == Min({k \in (i + 2)..Len(t) : CharAt(t, k) = "\n"})
            IN SubSeq(t, 1, i - 1) \o remove_line_comments(SubSeq(t, j + 1, Len(t)))

\* is_read_only_query: re.sub(r'/\*.*?\*/', '', t, flags=re.DOTALL)
RECURSIVE remove_block_comments(_)
remove_block_comments(t) ==
    LET starts == {i \in Occurrences(t, "/*") : \E j \in Occurrences(t, "*/") : j >= i + 2}
    IN IF starts = {} THEN t
       ELSE LET i == Min(starts)
                j == Min({k \in Occurrences(t, "*/") : k >= i + 2})
            IN SubSeq(t, 1, i - 1) \o remove_block_comments(SubSeq(t, j + 2, Len(t)))

\* is_read_only_query; on None sql_query.upper() raises and the except clause returns False
is_read_only_query(sql_query) ==
    IF sql_query = None THEN FALSE
    ELSE LET query_upper == strip(upper(sql_query))
             cleaned_query == strip(remove_block_comments(remove_line_comments(query_upper)))
         IN startswith(cleaned_query, "SELECT") \/ startswith(cleaned_query, "WITH")

\* the statement types _validate_syntax recognizes
StatementKeywords == {"SELECT", "INSERT", "UPDATE", "DELETE", "CREATE", "ALTER", "DROP", "WITH"}

\* parsed_stmt is a sqlparse Statement: a token group, whose ttype is None
\* a syntax check that stops at the first check that fails
_validate_syntax_first_error(sql_query, parsed_stmt) ==
    IF sql_query = None THEN <<"Syntax validation error: 'NoneType' object has no attribute 'count'">>
    ELSE IF count(sql_query, "(") # count(sql_query, ")") THEN <<"Unbalanced parentheses in query">>
    ELSE IF count(sql_query, "'") % 2 # 0 THEN <<"Unbalanced single quotes in query">>
    ELSE IF parsed_stmt.ttype = "Whitespace" THEN <<"Query contains only whitespace">>
    ELSE IF ~\E keyword \in StatementKeywords : contains(upper(sql_query), keyword)
    THEN <<"Query does not contain a recognized SQL statement type">>
    ELSE <<>>

\* on None sql_query.count raises and the except clause reports it
_validate_syntax(sql_query, parsed_stmt) ==
    IF sql_query = None THEN <<"Syntax validation error: 'NoneType' object has no attribute 'count'">> ELSE
    LET e1 == AppendIf(count(sql_query, "(") # count(sql_query, ")"), <<>>,
                       "Unbalanced parentheses in query")
        e2 == AppendIf(count(sql_query, "'") % 2 # 0, e1,
                       "Unbalanced single quotes in query")
        e3 == AppendIf(parsed_stmt.ttype = "Whitespace", e2,
                       "Query contains only whitespace")
        query_upper == upper(sql_query)
    IN AppendIf(~\E keyword \in StatementKeywords : contains(query_upper, keyword), e3,
                "Query does not contain a recognized SQL statement type")

InjectionVerbs == {"union", "select", "insert", "delete", "update", "create", "drop", "exec", "execute"}

StackedVerbs == {"drop", "delete", "truncate", "update", "insert"}

dangerous_functions == <<"xp_cmdshell", "sp_oacreate", "sp_oamethod", "openrowset", "opendatasource">>

\* self.injection_patterns, each with re.search over the lower-cased query
injection_pattern_matches(q) ==
    << AnyLit(q, Ws20Star(q, Lit(q, Anywhere(q), "'")), InjectionVerbs) # {},
       Lit(q, Ws20Plus(q, Lit(q, Anywhere(q), "union")), "select") # {},
       Lit(q, DotStar(q, Lit(q, DotStar(q, Lit(q, Anywhere(q), "select")), "from")),
           "information_schema") # {},
       Lit(q, DotStar(q, Lit(q, DotStar(q, Lit(q, Anywhere(q), "select")), "from")), "sys.") # {},
       Lit(q, Ws20Plus(q, Lit(q, Anywhere(q), "exec")), "xp_") # {},
       contains(q, "sp_executesql"),
       AnyLit(q, WsStar(q, Lit(q, Anywhere(q), ";")), StackedVerbs) # {} >>

injection_pattern_names ==
    << "('|(\\\\'))((\\s|%20)+)?((\\s|%20)+)?(union|select|insert|delete|update|create|drop|exec|execute)",
       "(union(\\s|%20)+select)",
       "(select.*from.*information_schema)",
       "(select.*from.*sys\\.)",
       "(exec(\\s|%20)+xp_)",
       "(sp_executesql)",
       "(;\\s*(drop|delete|truncate|update|insert))" >>

\* the messages whose flag is set, in order (the first n of them)
RECURSIVE Flagged(_, _, _)
Flagged(n, flags, messages) ==
    IF n = 0 THEN <<>>
    ELSE AppendIf(flags[n], Flagged(n - 1, flags, messages), messages[n])

_validate_security(sql_query) ==
    LET query_lower == lower(sql_query)
        s1 == Flagged(7, injection_pattern_matches(query_lower),
                      [i \in 1..7 |-> "Potential SQL injection pattern detected: " \o injection_pattern_names[i]])
        s2 == s1 \o Flagged(5, [i \in 1..5 |-> contains(query_lower, dangerous_functions[i])],
                            [i \in 1..5 |-> "Dangerous function detected: " \o dangerous_functions[i]])
        s3 == AppendIf(contains(query_lower, "sys.") \/ contains(query_lower, "information_schema."), s2,
                       "Access to system tables detected - ensure this is intentional")
    IN AppendIf(contains(query_lower, "exec(") \/ contains(query_lower, "execute("), s3,
                "Dynamic SQL execution detected - ensure proper parameterization")

\* SQLValidator._analyze_performance: the suggestions of the validator
SQLValidator_analyze_performance(sql_query, parsed_stmt) ==
    LET q == lower(sql_query)
        after_verb == WsPlus(q, AnyLit(q, Anywhere(q), {"update", "delete"}))
        p1 == AppendIf(Lit(q, WsPlus(q, Lit(q, Anywhere(q), "select")), "*") # {}, <<>>,
                       "Avoid SELECT * - specify only needed columns for better performance")
        \* (update|delete)\s+(?!.*where)
        p2 == AppendIf(\E j \in after_verb : Lit(q, DotStar(q, {j}), "where") = {}, p1,
                       "UPDATE/DELETE without WHERE clause detected - this will affect all rows")
        p3 == AppendIf(Lit(q, OneOf(q, WsPlus(q, Lit(q, Anywhere(q), "like")), "'\""), "%") # {}, p2,
                       "LIKE with leading wildcard (%) prevents index usage")
        \* where\s+.*\w+\s*\(.*\)\s*=
        words == WordPlus(q, DotStar(q, WsPlus(q, Lit(q, Anywhere(q), "where"))))
        p4 == AppendIf(Lit(q, WsStar(q, Lit(q, DotStar(q, Lit(q, WsStar(q, words), "(")), ")")), "=") # {}, p3,
                       "Functions in WHERE clause may prevent index usage")
        p5 == AppendIf(contains(q, "order by") /\ ~contains(q, "top") /\ ~contains(q, "limit"), p4,
                       "Consider using TOP clause with ORDER BY for better performance")
        subquery_count == Cardinality(Occurrences(q, "select")) - 1
        p6 == AppendIf(subquery_count > 2, p5,
                       "Consider using CTEs or JOINs instead of deeply nested subqueries")
        p7 == AppendIf(contains(q, "distinct"), p6,
                       "DISTINCT operation can be expensive - ensure it's necessary")
    IN AppendIf(contains(q, "group by")
                  /\ ~\E func \in {"count(", "sum(", "avg(", "max(", "min("} : contains(q, func), p7,
                "GROUP BY without aggregate functions - consider if this is necessary")

deprecated_features ==
    << <<"text", "TEXT data type is deprecated, use VARCHAR(MAX)">>,
       <<"ntext", "NTEXT data type is deprecated, use NVARCHAR(MAX)">>,
       <<"image", "IMAGE data type is deprecated, use VARBINARY(MAX)">>,
       <<"timestamp", "TIMESTAMP is deprecated, use ROWVERSION">> >>

_validate_sqlserver_specifics(sql_query) ==
    LET q == lower(sql_query)
        w1 == Flagged(4, [i \in 1..4 |-> contains(q, deprecated_features[i][1])],
                      [i \in 1..4 |-> deprecated_features[i][2]])
        \* \bfrom\s+\w+\s+
        from_table == WordPlus(q, WsPlus(q, Lit(q, WordStart(q, Anywhere(q)), "from")))
        w2 == AppendIf(WsPlus(q, from_table) # {} /\ ~contains(q, "dbo."), w1,
                       "Consider using schema-qualified table names (e.g., dbo.TableName)")
        w3 == AppendIf(contains(q, "nolock"), w2,
                       "NOLOCK hint can cause dirty reads - use carefully")
        \* '[0-9]{1,2}/[0-9]{1,2}/[0-9]{4}' over the query as written
        t == sql_query
        date == Lit(t, DigitsBetween(t, Lit(t, DigitsBetween(t, Lit(t, DigitsBetween(t,
                    Lit(t, Anywhere(t), "'"), 1, 2), "/"), 1, 2), "/"), 4, 4), "'")
    IN AppendIf(date # {}, w3,
                "Use ISO date format (YYYY-MM-DD) for better portability")

\* some of the words sqlparse classifies as keywords
SqlKeywords == {"SELECT", "FROM", "WHERE", "WITH", "AS", "UNION", "ORDER", "GROUP", "BY", "TOP", "LIMIT",
                "DROP", "TABLE", "DELETE", "UPDATE", "INSERT", "DISTINCT", "LIKE", "AND", "OR", "DESC",
                "JOIN", "SET", "INTO", "EXEC"}

\* the position after the first occurrence of sub at or after i, or after the text's end
After(t, i, sub) ==
    LET found == {j \in Occurrences(t, sub) : j >= i}
    IN IF found = {} THEN Len(t) + 1 ELSE Min(found) + Len(sub)

\* the texts of a list joined, by halves
RECURSIVE Join(_, _, _)
Join(pieces, lo, hi) ==
    IF lo > hi THEN ""
    ELSE IF lo = hi THEN pieces[lo]
    ELSE LET mid == (lo + hi) \div 2
         IN Join(pieces, lo, mid) \o Join(pieces, mid + 1, hi)

\* the positions of t inside a quoted literal or a comment, from position i on: a
\* literal runs from a quote to the next quote, a line comment to the end of its line,
\* a block comment to the next */ (each to the end of the text if it is not closed)
RECURSIVE Verbatim(_, _)
Verbatim(t, i) ==
    LET openers == {j \in i..Len(t) : CharAt(t, j) = "'" \/ At(t, j, "--") \/ At(t, j, "/*")}
    IN IF openers = {} THEN {}
       ELSE LET j == Min(openers)
                end == IF CharAt(t, j) = "'" THEN After(t, j + 1, "'")
                       ELSE IF At(t, j, "--") THEN After(t, j + 2, "\n")
                       ELSE After(t, j + 2, "*/")
            IN j..(end - 1) \cup Verbatim(t, end)

\* sqlparse.format(keyword_case='upper', identifier_case='lower', strip_comments=False,
\* strip_whitespace=True, reindent=True): literals and comments are kept as written,
\* keywords are upper-cased, other names lower-cased, and each run of whitespace becomes
\* one separator (reindent chooses between a space and a line break with indentation;
\* the model writes a space)
format_pieces(t) ==
    LET kept == Verbatim(t, 1)
        \* the word around position i, outside literals and comments
        first(i) == Max(RunStart(t, i, WordChars), Largest({0} \cup {k \in kept : k < i})) + 1
        last(i) == Least(WordEnd(t, i), Min({Len(t) + 1} \cup {k \in kept : k > i})) - 1
        word(i) == SubSeq(t, first(i), last(i))
    IN [i \in 1..Len(t) |->
          LET c == CharAt(t, i)
          IN IF i \in kept THEN c
             ELSE IF IsSpace(c)
                  THEN IF i > 1 /\ IsSpace(CharAt(t, i - 1)) /\ (i - 1) \notin kept THEN "" ELSE " "
             ELSE IF IsWord(c)
                  THEN IF upper(word(i)) \in SqlKeywords THEN upper_char(c) ELSE lower_char(c)
             ELSE c]

sqlparse_format(sql_query) == strip(Join(format_pieces(sql_query), 1, Len(sql_query)))

\* an optimizer that takes a line comment to run to the end of the text and drops it
_optimize_query_dropping_comment_tail(sql_query, sqlparse) ==
    LET comments == Occurrences(sql_query, "--")
        kept == IF comments = {} THEN sql_query ELSE SubSeq(sql_query, 1, Min(comments) - 1)
    IN IF sqlparse = "format_raises" THEN sql_query
       ELSE IF ~endswith(strip(kept), ";") THEN strip(kept) \o ";" ELSE strip(kept)

\* _optimize_query; sqlparse is "format_raises" when sqlparse.format raises
_optimize_query(sql_query, sqlparse) ==
    IF sqlparse = "format_raises" THEN sql_query
    ELSE LET formatted_query == sqlparse_format(sql_query)
         IN IF ~endswith(strip(formatted_query), ";") THEN formatted_query \o ";" ELSE formatted_query

ReadOnlyError == "Only SELECT queries are allowed. UPDATE, INSERT, DELETE, DROP, and other modification statements are prohibited for security."

\* a gate that only turns empty texts away, without the read-only check
gate_errors_empty_only(sql_query) ==
    IF sql_query = None \/ sql_query = "" \/ strip(sql_query) = "" THEN <<"SQL query is empty">>
    ELSE <<>>

\* the two checks that open validate_and_optimize: the error of the first that fails
gate_errors(sql_query) ==
    IF sql_query = None \/ sql_query = "" \/ strip(sql_query) = "" THEN <<"SQL query is empty">>
    ELSE IF ~is_read_only_query(sql_query) THEN <<ReadOnlyError>>
    ELSE <<>>

\* the verdict as validate_and_optimize first builds it
empty_result(sql_query) ==
    [is_valid |-> FALSE, errors |-> <<>>, warnings |-> <<>>, suggestions |-> <<>>,
     optimized_sql |-> sql_query, security_issues |-> <<>>]

\* an ending that declares the query valid whatever its errors
finish_result_despite_errors(result, sql_query, parsed_stmt, sqlparse) ==
    [result EXCEPT !.optimized_sql = _optimize_query(sql_query, sqlparse), !.is_valid = TRUE]

\* the assignment of is_valid and optimized_sql that ends validate_and_optimize
finish_result(result, sql_query, parsed_stmt, sqlparse) ==
    IF result.errors = <<>>
    THEN [result EXCEPT !.optimized_sql = _optimize_query(sql_query, sqlparse), !.is_valid = TRUE]
    ELSE result

\* validate_and_optimize; sqlparse tells what the sqlparse library does in this call:
\* "ok", "parse_empty" (parse returns no statement), "parse_raises", "format_raises"
validate_and_optimize(sql_query, sqlparse) ==
    LET result == empty_result(sql_query)
    IN IF gate_errors(sql_query) # <<>>
       THEN [result EXCEPT !.errors = gate_errors(sql_query)]
       ELSE IF sqlparse = "parse_empty"
       THEN [result EXCEPT !.errors = <<"Unable to parse SQL query">>]
       ELSE IF sqlparse = "parse_raises"
       THEN [result EXCEPT !.errors = <<"SQL parsing error: " \o "sqlparse failure">>]
       ELSE LET parsed_stmt == [ttype |-> "None"]
                analysed == [result EXCEPT
                                !.errors = _validate_syntax(sql_query, parsed_stmt),
                                !.security_issues = _validate_security(sql_query),
                                !.suggestions = SQLValidator_analyze_performance(sql_query, parsed_stmt),
                                !.warnings = _validate_sqlserver_specifics(sql_query)]
            IN finish_result(analysed, sql_query, parsed_stmt, sqlparse)

---------------------------------------------------------------------------
(* services/query_feedback_service.py: the four analysis stages            *)

\* n when the condition holds, else 0
When(cond, n) == IF cond THEN n ELSE 0

\* the sum of the first n numbers of a list
RECURSIVE Sum(_, _)
Sum(n, list) == IF n = 0 THEN 0 ELSE list[n] + Sum(n - 1, list)

\* str(e) of the AttributeError a str method raises on None
NoneError(method) == "'NoneType' object has no attribute '" \o method \o "'"

\* the patterns _analyze_syntax searches the upper-cased query for
syntax_injection_names ==
    << "';.*--", "UNION.*SELECT", "DROP\\s+TABLE", "DELETE\\s+FROM.*WHERE\\s+1\\s*=\\s*1" >>

\* WHERE\s+1\s*=\s*1 from the positions P on
WhereOneEqualsOne(u, P) ==
    Lit(u, WsStar(u, Lit(u, WsStar(u, Lit(u, WsPlus(u, Lit(u, P, "WHERE")), "1")), "=")), "1")

syntax_injection_matches(u) ==
    << Lit(u, DotStar(u, Lit(u, Anywhere(u), "';")), "--") # {},
       Lit(u, DotStar(u, Lit(u, Anywhere(u), "UNION")), "SELECT") # {},
       Lit(u, WsPlus(u, Lit(u, Anywhere(u), "DROP")), "TABLE") # {},
       WhereOneEqualsOne(u, DotStar(u, Lit(u, WsPlus(u, Lit(u, Anywhere(u), "DELETE")), "FROM"))) # {} >>

_analyze_syntax(sql_query) ==
    IF sql_query = None
    THEN [score |-> Max(0, 0), issues |-> <<"Syntax analysis error: " \o NoneError("upper")>>]
    ELSE LET query_upper == strip(upper(sql_query))
             no_statement == ~\E keyword \in {"SELECT", "INSERT", "UPDATE", "DELETE"} :
                                  contains(query_upper, keyword)
             unmatched == count(sql_query, "(") # count(sql_query, ")")
             hits == syntax_injection_matches(query_upper)
             select_star == contains(query_upper, "SELECT *")
             no_clause == ~\E clause \in {"WHERE", "JOIN", "GROUP BY", "ORDER BY"} :
                               contains(query_upper, clause)
             score == 100 - When(no_statement, 50) - When(unmatched, 20)
                          - Sum(4, [i \in 1..4 |-> When(hits[i], 30)])
                          - When(select_star, 10) - When(no_clause, 5)
             i1 == AppendIf(no_statement, <<>>, "No valid SQL statement detected")
             i2 == AppendIf(unmatched, i1, "Unmatched parentheses")
             i3 == i2 \o Flagged(4, hits, [i \in 1..4 |->
                        "Potential SQL injection pattern detected: " \o syntax_injection_names[i]])
             i4 == AppendIf(select_star, i3, "Consider specifying column names instead of SELECT *")
             i5 == AppendIf(no_clause, i4, "Query might benefit from filtering or sorting clauses")
         IN [score |-> Max(0, score), issues |-> i5]

\* intent_keywords, in the order of the dict
intent_keywords ==
    << <<"retrieve", {"SELECT", "SHOW"}>>,
       <<"count", {"COUNT", "SUM"}>>,
       <<"filter", {"WHERE", "HAVING"}>>,
       <<"sort", {"ORDER BY"}>>,
       <<"group", {"GROUP BY"}>>,
       <<"join", {"JOIN", "INNER JOIN", "LEFT JOIN"}>>,
       <<"aggregate", {"SUM", "AVG", "COUNT", "MAX", "MIN"}>>,
       <<"recent", {"ORDER BY.*DESC", "TOP", "LIMIT"}>>,
       <<"total", {"SUM", "COUNT"}>>,
       <<"average", {"AVG"}>>,
       <<"maximum", {"MAX"}>>,
       <<"minimum", {"MIN"}>> >>

NumIntents == Len(intent_keywords)

time_indicators == {"today", "yesterday", "last week", "this month", "recent"}

\* the elements of a set of positions, in increasing order
RECURSIVE Ascending(_)
Ascending(S) == IF S = {} THEN <<>> ELSE <<Min(S)>> \o Ascending(S \ {Min(S)})

\* re.findall(r'\b\w+\b', t): the maximal runs of word characters, in order
findall_words(t) ==
    LET starts == Ascending({i \in WordStart(t, 1..Len(t)) : IsWord(CharAt(t, i))})
    IN [k \in 1..Len(starts) |-> SubSeq(t, starts[k], WordEnd(t, starts[k]) - 1)]

\* _analyze_semantic_alignment past its first test: the intent, schema and time checks
semantic_checks(sql_query, natural_language, schema_context) ==
    IF sql_query = None
    THEN [score |-> Max(0, Least(100, 50)), issues |-> <<"Semantic analysis error: " \o NoneError("upper")>>]
    ELSE LET nl_lower == lower(natural_language)
             sql_upper == upper(sql_query)
             asked == [i \in 1..NumIntents |-> contains(nl_lower, intent_keywords[i][1])]
             found == [i \in 1..NumIntents |-> \E keyword \in intent_keywords[i][2] : contains(sql_upper, keyword)]
             missing == [i \in 1..NumIntents |-> asked[i] /\ ~found[i]]
             schema_given == schema_context # None /\ schema_context # ""
             potential_tables == IF schema_given THEN findall_words(nl_lower) ELSE <<>>
             schema_lower == IF schema_given THEN lower(schema_context) ELSE ""
             absent == [k \in 1..Len(potential_tables) |->
                           contains(schema_lower, potential_tables[k])
                             /\ ~contains(sql_upper, upper(potential_tables[k]))]
             timed == (\E indicator \in time_indicators : contains(nl_lower, indicator))
                        /\ ~\E fn \in {"DATE", "GETDATE", "NOW()", "CURDATE"} : contains(sql_upper, fn)
             score == 70 + Sum(NumIntents, [i \in 1..NumIntents |->
                                     IF ~asked[i] THEN 0 ELSE IF found[i] THEN 5 ELSE 0 - 15])
                         - Sum(Len(potential_tables), [k \in 1..Len(potential_tables) |-> When(absent[k], 10)])
                         - When(timed, 20)
             i1 == Flagged(NumIntents, missing, [i \in 1..NumIntents |->
                        "Natural language suggests '" \o intent_keywords[i][1]
                          \o "' but SQL query doesn't reflect this"])
             i2 == i1 \o Flagged(Len(potential_tables), absent, [k \in 1..Len(potential_tables) |->
                        "Mentioned table '" \o potential_tables[k] \o "' not found in query"])
             i3 == AppendIf(timed, i2,
                        "Natural language mentions time constraints but query lacks date filtering")
         IN [score |-> Max(0, Least(100, score)), issues |-> i3]

\* a semantic stage that makes its checks whether or not there is a natural-language text
semantic_checks_always(sql_query, natural_language, schema_context) ==
    semantic_checks(sql_query, natural_language, schema_context)

_analyze_semantic_alignment(sql_query, natural_language, schema_context) ==
    IF natural_language = None \/ natural_language = ""
    THEN [score |-> 70, issues |-> <<"No natural language context provided">>]
    ELSE semantic_checks(sql_query, natural_language, schema_context)

\* a performance stage that advises as the validator does and deducts nothing
_analyze_performance_advising_only(sql_query) ==
    IF sql_query = None
    THEN [score |-> 50, suggestions |-> <<"Performance analysis error: " \o NoneError("upper")>>]
    ELSE [score |-> 80, suggestions |-> SQLValidator_analyze_performance(sql_query, [ttype |-> "None"])]

_analyze_performance(sql_query) ==
    IF sql_query = None
    THEN [score |-> Max(0, Least(100, 50)),
          suggestions |-> <<"Performance analysis error: " \o NoneError("upper")>>]
    ELSE LET u == upper(sql_query)
             select_star == contains(u, "SELECT *")
             \* WHERE.*LIKE\s+['"]%.*%['"]
             wildcard == OneOf(u, Lit(u, DotStar(u, Lit(u, OneOf(u, WsPlus(u, Lit(u, DotStar(u,
                             Lit(u, Anywhere(u), "WHERE")), "LIKE")), "'\""), "%")), "%"), "'\"") # {}
             unranked == contains(u, "ORDER BY") /\ ~contains(u, "LIMIT") /\ ~contains(u, "TOP")
             subquery_count == Cardinality(Occurrences(u, "SELECT")) - 1
             unfiltered == (contains(u, "UPDATE") \/ contains(u, "DELETE")) /\ ~contains(u, "WHERE")
             distinct == contains(u, "DISTINCT")
             indexed == contains(u, "INDEX") \/ contains(u, "INDEXED")
             \* LIMIT|TOP\s+\d+
             limited == contains(u, "LIMIT") \/ DigitPlus(u, WsPlus(u, Lit(u, Anywhere(u), "TOP"))) # {}
             score == 80 - When(select_star, 15) - When(wildcard, 20) - When(unranked, 10)
                         - When(subquery_count > 2, 15) - When(unfiltered, 30) - When(distinct, 5)
                         + When(indexed, 10) + When(limited, 10)
             s1 == AppendIf(select_star, <<>>, "Replace SELECT * with specific column names to improve performance")
             s2 == AppendIf(wildcard, s1, "Leading wildcard in LIKE clause can prevent index usage")
             s3 == AppendIf(unranked, s2, "Consider adding LIMIT/TOP clause when ordering results")
             s4 == AppendIf(subquery_count > 2, s3,
                            "Multiple subqueries detected - consider using JOINs for better performance")
             s5 == AppendIf(unfiltered, s4,
                            "UPDATE/DELETE without WHERE clause can affect performance and data integrity")
             s6 == AppendIf(distinct, s5, "DISTINCT can be expensive - ensure it's necessary")
             s7 == AppendIf(indexed, s6, "Good: Query appears to consider indexing")
             s8 == AppendIf(limited, s7, "Good: Query limits result set size")
         IN [score |-> Max(0, Least(100, score)), suggestions |-> s8]

\* the (pattern, warning) table of _analyze_security
security_warnings ==
    << "Potential SQL injection with comment termination", "UNION-based injection pattern",
       "Dangerous DROP statement", "Dynamic SQL execution detected", "System shutdown command",
       "Command shell execution", "System configuration access" >>

\* the table's patterns, searched in the upper-cased query
security_pattern_matches(u) ==
    << Lit(u, DotStar(u, Lit(u, Anywhere(u), "';")), "--") # {},
       Lit(u, DotStar(u, Lit(u, Anywhere(u), "UNION")), "SELECT") # {},
       Lit(u, WsPlus(u, Lit(u, Anywhere(u), "DROP")), "TABLE") # {},
       Lit(u, WsStar(u, Lit(u, Anywhere(u), "EXEC")), "(") # {},
       contains(u, "SHUTDOWN"),
       contains(u, "xp_cmdshell"),
       contains(u, "sp_configure") >>

\* a score that keeps the worst deduction alone instead of the sum of all of them
security_result_worst_case(score, warnings) ==
    LET given == {warnings[i] : i \in DOMAIN warnings}
        worst == IF "Hardcoded credentials detected" \in given THEN 40
                 ELSE IF \E i \in DOMAIN security_warnings : security_warnings[i] \in given THEN 30
                 ELSE IF "Overly permissive WHERE clause (1=1)" \in given THEN 20
                 ELSE 0
    IN [score |-> 100 - worst + When("Good: Parameterized query detected" \in given, 10),
        warnings |-> warnings]

\* the last score of _analyze_security, before the value is returned
security_result(score, warnings) == [score |-> Max(0, score), warnings |-> warnings]

_analyze_security(sql_query) ==
    IF sql_query = None
    THEN security_result(50, <<"Security analysis error: " \o NoneError("upper")>>)
    ELSE LET u == upper(sql_query)
             hits == security_pattern_matches(u)
             credentials == Lit(u, WsStar(u, AnyLit(u, Anywhere(u), {"PASSWORD", "PWD"})), "=") # {}
             permissive == WhereOneEqualsOne(u, Anywhere(u)) # {}
             \* WHERE.*=\s*[@?], searched in the query as written
             t == sql_query
             parameterized == OneOf(t, WsStar(t, Lit(t, DotStar(t, Lit(t, Anywhere(t), "WHERE")), "=")), "@?") # {}
             score == 100 - Sum(7, [i \in 1..7 |-> When(hits[i], 30)])
                          - When(credentials, 40) - When(permissive, 20) + When(parameterized, 10)
             w1 == Flagged(7, hits, security_warnings)
             w2 == AppendIf(credentials, w1, "Hardcoded credentials detected")
             w3 == AppendIf(permissive, w2, "Overly permissive WHERE clause (1=1)")
             w4 == AppendIf(parameterized, w3, "Good: Parameterized query detected")
         IN security_result(score, w4)

---------------------------------------------------------------------------
(* services/query_feedback_service.py: execution, scoring, recommendations *)

\* dict.get(key, default)
Get(dict, key, default) == IF key \in DOMAIN dict THEN dict[key] ELSE default

\* a dict with no entries; connection_info = None is modelled by it too, as
\* "if connection_info" and "not connection_info" treat None and {} alike
EmptyDict == <<>>

Falsy(dict) == DOMAIN dict = {}

\* what a failed execution returns
execution_failure(error) == [success |-> FALSE, error |-> error, execution_time |-> 0]

\* a safety check that looks for SELECT anywhere in the text
is_select_anywhere(sql_query) == contains(upper(sql_query), "SELECT")

\* the safety check of _test_query_execution
is_select(sql_query) == startswith(upper(strip(sql_query)), "SELECT")

\* "Execute with limit for safety": the statement _test_query_execution executes
limited_query(sql_query) ==
    IF ~contains(upper(sql_query), "LIMIT") /\ ~contains(upper(sql_query), "TOP")
    THEN replace_first(sql_query, "SELECT", "SELECT TOP 100")
    ELSE sql_query

\* a verifier that tries a second time when the database fails the statement
_test_query_execution_retrying(sql_query, connection_info, pyodbc_available, db) ==
    IF ~pyodbc_available \/ Falsy(connection_info)
    THEN [results |-> [success |-> FALSE, error |-> "Database connection not available"], log |-> <<>>]
    ELSE LET connect == [event |-> "connect"] IN
         IF db.outcome = "connect_raises"
         THEN [results |-> execution_failure(db.error), log |-> <<connect>>]
         ELSE IF sql_query = None \/ ~is_select(sql_query)
         THEN [results |-> execution_failure("Only SELECT queries are executed for safety"),
               log |-> <<connect>>]
         ELSE LET execute == [event |-> "execute", statement |-> limited_query(sql_query)] IN
              IF db.outcome = "execute_raises"
              THEN [results |-> execution_failure(db.error), log |-> <<connect, execute, connect, execute>>]
              ELSE [results |-> [success |-> TRUE, execution_time |-> db.elapsed, row_count |-> db.rows,
                                 sample_data |-> Least(5, db.rows)],
                    log |-> <<connect, execute>>]

\* _test_query_execution. db is what the database does in this call: outcome
\* "connect_raises", "execute_raises" (both with db.error) or "rows" (with db.rows
\* rows after db.elapsed milliseconds). The result comes with the calls made to pyodbc.
_test_query_execution(sql_query, connection_info, pyodbc_available, db) ==
    IF ~pyodbc_available \/ Falsy(connection_info)
    THEN [results |-> [success |-> FALSE, error |-> "Database connection not available"], log |-> <<>>]
    ELSE LET connect == [event |-> "connect"] IN
         IF db.outcome = "connect_raises"
         THEN [results |-> execution_failure(db.error), log |-> <<connect>>]
         ELSE IF sql_query = None
         THEN [results |-> execution_failure(NoneError("strip")), log |-> <<connect>>]
         ELSE IF ~is_select(sql_query)
         THEN [results |-> execution_failure("Only SELECT queries are executed for safety"),
               log |-> <<connect>>]
         ELSE LET execute == [event |-> "execute", statement |-> limited_query(sql_query)] IN
              IF db.outcome = "execute_raises"
              THEN [results |-> execution_failure(db.error), log |-> <<connect, execute>>]
              ELSE [results |-> [success |-> TRUE, execution_time |-> db.elapsed, row_count |-> db.rows,
                                 sample_data |-> Least(5, db.rows)],
                    log |-> <<connect, execute>>]

\* an execution attempted whether or not connection_info is given
execution_always_requested(connection_info) == TRUE

\* "if connection_info:" in analyze_query_quality
execution_requested(connection_info) == ~Falsy(connection_info)

\* an adjustment that rewards a success and forgets the penalty of a failure
adjusted_syntax_score_no_penalty(syntax_score, success) ==
    IF success THEN Least(100, syntax_score + 20) ELSE syntax_score

\* an adjustment whose reward is not capped at 100
adjusted_syntax_score_uncapped(syntax_score, success) ==
    IF success THEN syntax_score + 20 ELSE Max(0, syntax_score - 30)

\* the adjustment of the syntax score by the execution's result
adjusted_syntax_score(syntax_score, success) ==
    IF success THEN Least(100, syntax_score + 20) ELSE Max(0, syntax_score - 30)

\* overall_score, in tenths of a point: the code computes
\* syntax * 0.3 + semantic * 0.3 + performance * 0.2 + security * 0.2 in floating point
overall_score(scores) ==
    scores.syntax_score * 3 + scores.semantic_score * 3
      + scores.performance_score * 2 + scores.security_score * 2

\* _generate_recommendations; overall_score is in tenths, execution_time in milliseconds
\* a banding whose thresholds belong to the band below
band_recommendation_strict(overall) ==
    IF overall > 900
    THEN "Excellent query! This SQL appears to be well-structured and efficient."
    ELSE IF overall > 700
    THEN "Good query with room for minor improvements."
    ELSE IF overall > 500
    THEN "Query needs attention in several areas for optimal performance."
    ELSE "Query requires significant improvements before production use."

\* the first recommendation, by the band of the overall score (in tenths)
band_recommendation(overall) ==
    IF overall >= 900
    THEN "Excellent query! This SQL appears to be well-structured and efficient."
    ELSE IF overall >= 700
    THEN "Good query with room for minor improvements."
    ELSE IF overall >= 500
    THEN "Query needs attention in several areas for optimal performance."
    ELSE "Query requires significant improvements before production use."

\* targeted recommendations with one threshold, 70, for the four scores
targeted_recommendations_one_threshold(scores) ==
    LET r1 == AppendIf(scores.syntax_score < 70, <<>>,
                       "Review SQL syntax and fix any structural issues.")
        r2 == AppendIf(scores.semantic_score < 70, r1,
                       "Ensure the query accurately reflects the natural language intent.")
        r3 == AppendIf(scores.performance_score < 70, r2,
                       "Consider performance optimizations like indexing and query restructuring.")
    IN AppendIf(scores.security_score < 70, r3,
                "Address security concerns before using this query in production.")

\* the recommendations of _generate_recommendations for the scores below their thresholds
targeted_recommendations(scores) ==
    LET r1 == AppendIf(scores.syntax_score < 70, <<>>,
                       "Review SQL syntax and fix any structural issues.")
        r2 == AppendIf(scores.semantic_score < 70, r1,
                       "Ensure the query accurately reflects the natural language intent.")
        r3 == AppendIf(scores.performance_score < 70, r2,
                       "Consider performance optimizations like indexing and query restructuring.")
    IN AppendIf(scores.security_score < 80, r3,
                "Address security concerns before using this query in production.")

\* a note for every execution result that carries a time, successful or not
execution_note_for_any_attempt(execution_results) ==
    LET timed == "execution_time" \in DOMAIN execution_results
        exec_time == Get(execution_results, "execution_time", 0)
    IN IF timed /\ exec_time > 5000
       THEN <<"Query execution time is high - consider optimization.">>
       ELSE IF timed /\ exec_time < 100
       THEN <<"Good: Query executes efficiently.">>
       ELSE <<>>

\* the execution-based recommendation of _generate_recommendations, if any
execution_note(execution_results) ==
    LET succeeded == Get(execution_results, "success", FALSE)
        exec_time == Get(execution_results, "execution_time", 0)
    IN IF succeeded /\ exec_time > 5000
       THEN <<"Query execution time is high - consider optimization.">>
       ELSE IF succeeded /\ exec_time < 100
       THEN <<"Good: Query executes efficiently.">>
       ELSE <<>>

_generate_recommendations(feedback) ==
    <<band_recommendation(feedback.analysis.overall_score)>>
      \o targeted_recommendations(feedback.analysis)
      \o execution_note(feedback.execution_results)

\* Each stage is a function of its arguments alone. These tables hold the result of
\* each stage for every submission, so that a stage is evaluated once for each
\* submission and not once for each state.
syntax_analyses == [sql_query \in SubmittedTexts |-> _analyze_syntax(sql_query)]

semantic_analyses ==
    [sql_query \in SubmittedTexts, natural_language \in NaturalLanguages, schema_context \in SchemaContexts |->
        _analyze_semantic_alignment(sql_query, natural_language, schema_context)]

performance_analyses == [sql_query \in SubmittedTexts |-> _analyze_performance(sql_query)]

security_analyses == [sql_query \in SubmittedTexts |-> _analyze_security(sql_query)]

\* stages gated by the lexical classifier: a text that is not read-only gets the
\* scores of the stages but none of their findings
staged_feedback_gated(sql_query, schema_context, natural_language) ==
    LET gated == sql_query # None /\ ~is_read_only_query(sql_query)
        syntax_analysis == syntax_analyses[sql_query]
        semantic_analysis == semantic_analyses[sql_query, natural_language, schema_context]
        performance_analysis == performance_analyses[sql_query]
        security_analysis == security_analyses[sql_query]
    IN [query |-> sql_query,
        natural_language |-> natural_language,
        analysis |-> [syntax_score |-> syntax_analysis.score,
                      semantic_score |-> semantic_analysis.score,
                      performance_score |-> performance_analysis.score,
                      security_score |-> security_analysis.score,
                      overall_score |-> 0],
        feedback |-> [syntax_issues |-> IF gated THEN <<>> ELSE syntax_analysis.issues,
                      semantic_issues |-> semantic_analysis.issues,
                      performance_suggestions |-> IF gated THEN <<>> ELSE performance_analysis.suggestions,
                      security_warnings |-> IF gated THEN <<>> ELSE security_analysis.warnings,
                      correctness_issues |-> <<>>],
        execution_results |-> EmptyDict,
        recommendations |-> <<>>]

\* steps 1 to 4 of analyze_query_quality: the feedback after the four stages
staged_feedback(sql_query, schema_context, natural_language) ==
    LET syntax_analysis == syntax_analyses[sql_query]
        semantic_analysis == semantic_analyses[sql_query, natural_language, schema_context]
        performance_analysis == performance_analyses[sql_query]
        security_analysis == security_analyses[sql_query]
    IN [query |-> sql_query,
        natural_language |-> natural_language,
        analysis |-> [syntax_score |-> syntax_analysis.score,
                      semantic_score |-> semantic_analysis.score,
                      performance_score |-> performance_analysis.score,
                      security_score |-> security_analysis.score,
                      overall_score |-> 0],
        feedback |-> [syntax_issues |-> syntax_analysis.issues,
                      semantic_issues |-> semantic_analysis.issues,
                      performance_suggestions |-> performance_analysis.suggestions,
                      security_warnings |-> security_analysis.warnings,
                      correctness_issues |-> <<>>],
        execution_results |-> EmptyDict,
        recommendations |-> <<>>]

\* step 5: the execution's results and the scores adjusted by them
with_execution(feedback, execution_results) ==
    LET success == Get(execution_results, "success", FALSE)
        tested == [feedback EXCEPT
                      !.execution_results = execution_results,
                      !.analysis.syntax_score = adjusted_syntax_score(@, success)]
    IN IF success THEN tested
       ELSE [tested EXCEPT !.feedback.correctness_issues =
                Append(@, "Query execution failed: " \o Get(execution_results, "error", "Unknown error"))]

\* steps 6 and 7: the overall score and the recommendations
with_verdict(feedback) ==
    LET scored == [feedback EXCEPT !.analysis.overall_score = overall_score(feedback.analysis)]
    IN [scored EXCEPT !.recommendations = _generate_recommendations(scored)]

\* steps 5 to 7 with the overall score computed before the execution's adjustment
tested_feedback_scored_first(staged, execution_results) ==
    with_execution(with_verdict(staged), execution_results)

\* steps 5 to 7 when a connection is given: the scores are adjusted first
tested_feedback(staged, execution_results) == with_verdict(with_execution(staged, execution_results))

\* the feedback as analyze_query_quality first builds it (the timestamp is left out)
initial_feedback(sql_query, natural_language) ==
    [query |-> sql_query,
     natural_language |-> natural_language,
     analysis |-> [syntax_score |-> 0, semantic_score |-> 0, performance_score |-> 0,
                   security_score |-> 0, overall_score |-> 0],
     feedback |-> [syntax_issues |-> <<>>, semantic_issues |-> <<>>, performance_suggestions |-> <<>>,
                   security_warnings |-> <<>>, correctness_issues |-> <<>>],
     execution_results |-> EmptyDict,
     recommendations |-> <<>>]

\* an analysis whose stages do not catch what they raise: the AttributeError of a
\* query of None reaches the except clause of analyze_query_quality
analyze_query_quality_unguarded(sql_query, schema_context, natural_language, connection_info, pyodbc_available, db) ==
    IF sql_query = None
    THEN [feedback |-> [k \in DOMAIN initial_feedback(sql_query, natural_language) \cup {"error"} |->
                           IF k = "error" THEN NoneError("upper")
                           ELSE initial_feedback(sql_query, natural_language)[k]],
          log |-> <<>>]
    ELSE LET staged == staged_feedback(sql_query, schema_context, natural_language)
         IN IF execution_requested(connection_info)
            THEN LET execution == _test_query_execution(sql_query, connection_info, pyodbc_available, db)
                 IN [feedback |-> tested_feedback(staged, execution.results), log |-> execution.log]
            ELSE [feedback |-> with_verdict(staged), log |-> <<>>]

\* analyze_query_quality: the feedback returned (and stored), and the calls made to pyodbc
analyze_query_quality(sql_query, schema_context, natural_language, connection_info, pyodbc_available, db) ==
    LET staged == staged_feedback(sql_query, schema_context, natural_language)
    IN IF execution_requested(connection_info)
       THEN LET execution == _test_query_execution(sql_query, connection_info, pyodbc_available, db)
            IN [feedback |-> tested_feedback(staged, execution.results), log |-> execution.log]
       ELSE [feedback |-> with_verdict(staged), log |-> <<>>]

---------------------------------------------------------------------------
(* services/sqlserver_service.py                                           *)

\* "Validate query is SELECT only" in execute_query
is_select_or_with(query) ==
    LET query_stripped == upper(strip(query))
    IN startswith(query_stripped, "SELECT") \/ startswith(query_stripped, "WITH")

\* "Add TOP clause if not present and limit specified": the statement execute_query executes
query_with_top(query, limit) ==
    LET query_stripped == upper(strip(query))
    IN IF limit # 0 /\ ~contains(query_stripped, "TOP") /\ ~contains(query_stripped, "LIMIT")
          /\ startswith(query_stripped, "SELECT")
       THEN replace_first(query, "SELECT", "SELECT TOP " \o ToString(limit))
       ELSE query

\* execute_query: the result returned and the calls made to pyodbc; without pyodbc
\* the module's pyodbc is None and pyodbc.connect raises
execute_query(query, limit, pyodbc_available, db) ==
    IF query = None
    THEN [result |-> [success |-> FALSE, error |-> NoneError("strip"), data |-> 0, query |-> query],
          log |-> <<>>]
    ELSE IF ~is_select_or_with(query)
    THEN [result |-> [success |-> FALSE, error |-> "Only SELECT queries are allowed", data |-> 0],
          log |-> <<>>]
    ELSE IF ~pyodbc_available
    THEN [result |-> [success |-> FALSE, error |-> NoneError("connect"), data |-> 0, query |-> query],
          log |-> <<>>]
    ELSE LET connect == [event |-> "connect"] IN
         IF db.outcome = "connect_raises"
         THEN [result |-> [success |-> FALSE, error |-> db.error, data |-> 0, query |-> query],
               log |-> <<connect>>]
         ELSE LET statement == query_with_top(query, limit)
                  execute == [event |-> "execute", statement |-> statement]
              IN IF db.outcome = "execute_raises"
                 THEN [result |-> [success |-> FALSE, error |-> db.error, data |-> 0, query |-> statement],
                       log |-> <<connect, execute>>]
                 ELSE [result |-> [success |-> TRUE, data |-> db.rows, row_count |-> db.rows,
                                   execution_time |-> db.elapsed, query |-> statement],
                       log |-> <<connect, execute>>]

---------------------------------------------------------------------------
(* The calls: arguments and what the environment (sqlparse, the database)  *)
(* does during the call                                                    *)

SqlparseOutcomes == {"ok", "parse_empty", "parse_raises", "format_raises"}

ValidateCalls ==
    [op : {"validate_and_optimize"},
     sql_query : ValidatedTexts,
     sqlparse : SqlparseOutcomes]

SqlAuth == [auth_type |-> "sql", host |-> "db1", username |-> "app", password |-> "secret"]

\* what the database does: it refuses the connection, fails the statement, or returns
\* rows after some milliseconds
DbOutcomes ==
    {[outcome |-> "connect_raises", error |-> "Login failed for user 'app'"],
     [outcome |-> "execute_raises", error |-> "Invalid column name 'foo'"],
     [outcome |-> "rows", rows |-> 7, elapsed |-> 50],
     [outcome |-> "rows", rows |-> 3, elapsed |-> 1000],
     [outcome |-> "rows", rows |-> 0, elapsed |-> 6000]}

\* what the database does when it is not called
NoDb == [outcome |-> "not called"]

\* without a connection the database plays no part
AnalyzeCalls ==
    [op : {"analyze_query_quality"},
     sql_query : SubmittedTexts,
     schema_context : SchemaContexts,
     natural_language : NaturalLanguages,
     connection_info : {EmptyDict},
     db : {NoDb}]
    \cup
    [op : {"analyze_query_quality"},
     sql_query : SubmittedTexts,
     schema_context : SchemaContexts,
     natural_language : NaturalLanguages,
     connection_info : {SqlAuth},
     db : DbOutcomes]

\* the row limits asked of execute_query: none (0), the default and another
Limits == {0, 10, 1000}

ExecuteCalls ==
    [op : {"execute_query"},
     query : SubmittedTexts,
     limit : Limits,
     db : DbOutcomes]

\* the texts handed to _analyze_security: a query, markers and signatures
SecurityFragments ==
    {"SELECT id FROM t ", "WHERE id = @p ", "where id = ? ", "UNION SELECT x ", "'; DROP TABLE t -- ",
     "exec xp_cmdshell 'dir' ", "PASSWORD = 'x' ", "WHERE 1=1 "}

\* _analyze_security on a text and on the text with one more fragment
SecurityCalls ==
    [op : {"_analyze_security"},
     sql_query : Texts(SecurityFragments, MaxParts),
     addition : SecurityFragments]

\* the texts handed to _analyze_performance
PerformanceFragments ==
    {"SELECT * FROM orders", "select name from t", " ORDER BY name", " LIMIT 5", " WITH (INDEX(ix))",
     " DISTINCT"}

\* a WHERE predicate with a function call around the column, and the same predicate
\* without the call; or no predicate
Predicates ==
    {[wrapped |-> " WHERE UPPER(name) = 'A'", plain |-> " WHERE name = 'A'"],
     [wrapped |-> " where year(sold_on) = 2024", plain |-> " where sold_on = 2024"],
     [wrapped |-> "", plain |-> ""]}

\* _analyze_performance on a text with a predicate
PerformanceCalls ==
    {[op |-> "_analyze_performance", sql_query |-> t \o p.wrapped, plain_query |-> t \o p.plain] :
        t \in Texts(PerformanceFragments, MaxParts), p \in Predicates}

\* the natural-language texts handed to _analyze_semantic_alignment
RequestFragments == {"show me total sales", " last month", " this month", " of recent users"}

SemanticQueries ==
    {"SELECT name FROM products", "SELECT SUM(amount) FROM sales",
     "SELECT name FROM sales WHERE sold_on >= GETDATE()",
     "SELECT name FROM users ORDER BY created DESC", None}

SemanticCalls ==
    [op : {"_analyze_semantic_alignment"},
     sql_query : SemanticQueries,
     natural_language : Texts(RequestFragments, MaxParts),
     schema_context : SchemaContexts]

---------------------------------------------------------------------------
(* The operations                                                          *)

\* SQLValidator.validate_and_optimize returns its verdict
ValidateAndOptimize ==
    /\ pc = "called"
    /\ call.op = "validate_and_optimize"
    /\ ret' = validate_and_optimize(call.sql_query, call.sqlparse)
    /\ pc' = "returned"
    /\ UNCHANGED <<call, feedback_history, db_log, PYODBC_AVAILABLE, query_history_storage, next_query_id, requests>>

\* QueryFeedbackService.analyze_query_quality stores and returns its feedback
AnalyzeQueryQuality ==
    /\ pc = "called"
    /\ call.op = "analyze_query_quality"
    /\ LET done == analyze_query_quality(call.sql_query, call.schema_context, call.natural_language,
                                         call.connection_info, PYODBC_AVAILABLE, call.db)
       IN /\ ret' = done.feedback
          /\ feedback_history' = Append(feedback_history, done.feedback)
          /\ db_log' = done.log
    /\ pc' = "returned"
    /\ UNCHANGED <<call, PYODBC_AVAILABLE, query_history_storage, next_query_id, requests>>

\* SQLServerService.execute_query returns its result
ExecuteQuery ==
    /\ pc = "called"
    /\ call.op = "execute_query"
    /\ LET done == execute_query(call.query, call.limit, PYODBC_AVAILABLE, call.db)
       IN /\ ret' = done.result
          /\ db_log' = done.log
    /\ pc' = "returned"
    /\ UNCHANGED <<call, feedback_history, PYODBC_AVAILABLE, query_history_storage, next_query_id, requests>>

\* _analyze_security returns its result: for the text, for the text with the addition,
\* and for the text in lower and in upper case
AnalyzeSecurity ==
    /\ pc = "called"
    /\ call.op = "_analyze_security"
    /\ ret' = [result |-> _analyze_security(call.sql_query),
               extended |-> _analyze_security(call.sql_query \o call.addition),
               lowered |-> _analyze_security(lower(call.sql_query)),
               uppered |-> _analyze_security(upper(call.sql_query))]
    /\ pc' = "returned"
    /\ UNCHANGED <<call, feedback_history, db_log, PYODBC_AVAILABLE, query_history_storage, next_query_id, requests>>

\* _analyze_performance returns its result: for the text and for the text with the
\* plain predicate; SQLValidator._analyze_performance returns its suggestions for the text
AnalyzePerformance ==
    /\ pc = "called"
    /\ call.op = "_analyze_performance"
    /\ ret' = [result |-> _analyze_performance(call.sql_query),
               plain |-> _analyze_performance(call.plain_query),
               validator |-> SQLValidator_analyze_performance(call.sql_query, [ttype |-> "None"])]
    /\ pc' = "returned"
    /\ UNCHANGED <<call, feedback_history, db_log, PYODBC_AVAILABLE, query_history_storage, next_query_id, requests>>

\* _analyze_semantic_alignment returns its result
AnalyzeSemanticAlignment ==
    /\ pc = "called"
    /\ call.op = "_analyze_semantic_alignment"
    /\ ret' = _analyze_semantic_alignment(call.sql_query, call.natural_language, call.schema_context)
    /\ pc' = "returned"
    /\ UNCHANGED <<call, feedback_history, db_log, PYODBC_AVAILABLE, query_history_storage, next_query_id, requests>>

\* services freshly constructed, with one call in flight
InitCalled(calls, pyodbc) ==
    /\ pc = "called"
    /\ call \in calls
    /\ ret = EmptyDict
    /\ feedback_history = <<>>
    /\ db_log = <<>>
    /\ PYODBC_AVAILABLE \in pyodbc
    /\ query_history_storage = <<>>
    /\ next_query_id = 1
    /\ requests = <<>>

\* every call of validate_and_optimize
InitValidate == InitCalled(ValidateCalls, {TRUE})

NextValidate == ValidateAndOptimize

SpecValidate == InitValidate /\ [][NextValidate]_vars

\* every call of analyze_query_quality
InitAnalyze == InitCalled(AnalyzeCalls, BOOLEAN)

NextAnalyze == AnalyzeQueryQuality

SpecAnalyze == InitAnalyze /\ [][NextAnalyze]_vars

\* every call of validate_and_optimize and of analyze_query_quality
InitVerdict == InitCalled(ValidateCalls \cup AnalyzeCalls, BOOLEAN)

NextVerdict == ValidateAndOptimize \/ AnalyzeQueryQuality

SpecVerdict == InitVerdict /\ [][NextVerdict]_vars

\* every call of one stage of the scorer
InitStages == InitCalled(SecurityCalls \cup PerformanceCalls \cup SemanticCalls, {TRUE})

NextStages == AnalyzeSecurity \/ AnalyzePerformance \/ AnalyzeSemanticAlignment

SpecStages == InitStages /\ [][NextStages]_vars

\* every call that may reach the database: analyze_query_quality with a connection,
\* and execute_query
InitExecute ==
    InitCalled({c \in AnalyzeCalls : c.connection_info = SqlAuth /\ c.natural_language = ""
                                       /\ c.schema_context = ""} \cup ExecuteCalls, BOOLEAN)

NextExecute == AnalyzeQueryQuality \/ ExecuteQuery

SpecExecute == InitExecute /\ [][NextExecute]_vars

---------------------------------------------------------------------------
(* The properties                                                          *)

\* the statements passed to cursor.execute during the call
executed_statements ==
    {db_log[i].statement : i \in {j \in DOMAIN db_log : db_log[j].event = "execute"}}

\* a row-limiting clause as the code looks for one: TOP or LIMIT in any letter case
has_row_limit(statement) == contains(upper(statement), "TOP") \/ contains(upper(statement), "LIMIT")

\* the call of the operation has returned
Returned(op) == pc = "returned" /\ call.op = op

\* analyze_query_quality has returned from a call with a connection_info
ReturnedTested == Returned("analyze_query_quality") /\ ~Falsy(call.connection_info)

\* the score of the syntax stage for the call's text, before any execution
pre_execution_syntax_score == syntax_analyses[call.sql_query].score

\* C1: the verdict of validate_and_optimize is valid if and only if its list of errors
\* is empty and is_read_only_query finds the submitted text read-only.
C1_ValidIffNoErrorsAndReadOnly ==
    Returned("validate_and_optimize")
        => (ret.is_valid <=> (ret.errors = <<>> /\ is_read_only_query(call.sql_query)))

\* a read-only text behind a comment, found valid
C1_Witness ==
    /\ Returned("validate_and_optimize")
    /\ call.sql_query = "-- c\nSELECT id FROM t "
    /\ ret.is_valid
    /\ ret.errors = <<>>

\* C2: for a text that is empty or not read-only, the verdict of validate_and_optimize
\* is invalid with exactly one error, no security issue, suggestion or warning, and
\* optimized_sql is the text as submitted.
C2_RejectedWithoutAnalysis ==
    (/\ Returned("validate_and_optimize")
     /\ \/ call.sql_query = None
        \/ strip(call.sql_query) = ""
        \/ ~is_read_only_query(call.sql_query))
        => /\ ret.is_valid = FALSE
           /\ Len(ret.errors) = 1
           /\ ret.security_issues = <<>>
           /\ ret.suggestions = <<>>
           /\ ret.warnings = <<>>
           /\ ret.optimized_sql = call.sql_query

\* a DROP with an unbalanced quote, turned away with the read-only error alone
C2_Witness ==
    /\ Returned("validate_and_optimize")
    /\ call.sql_query = "DROP TABLE t'"
    /\ call.sqlparse = "ok"
    /\ ret.errors = <<ReadOnlyError>>
    /\ ret.optimized_sql = "DROP TABLE t'"

C4_ScoresWithinRange ==
    Returned("analyze_query_quality")
        => /\ ret.analysis.syntax_score \in 0..100
           /\ ret.analysis.semantic_score \in 0..100
           /\ ret.analysis.performance_score \in 0..100
           /\ ret.analysis.security_score \in 0..100
           /\ ret.analysis.overall_score \in 0..1000

\* C5: the overall score of the feedback returned is 0.3 syntax + 0.3 semantic
\* + 0.2 performance + 0.2 security of the scores in that feedback, the syntax score
\* being the one adjusted by the execution (scores in tenths on the left).
C5_OverallIsWeightedSum ==
    Returned("analyze_query_quality")
        => ret.analysis.overall_score =
              3 * ret.analysis.syntax_score + 3 * ret.analysis.semantic_score
                + 2 * ret.analysis.performance_score + 2 * ret.analysis.security_score

\* an execution has changed the syntax score, and the overall score is that of the
\* changed score
C5_Witness ==
    /\ ReturnedTested
    /\ call.sql_query = "select * from orders "
    /\ ret.execution_results.success
    /\ pre_execution_syntax_score = 85
    /\ ret.analysis.syntax_score = 100
    /\ ret.analysis.overall_score = 300 + 3 * ret.analysis.semantic_score + 130 + 200

\* C6: without connection_info, execution_results stays empty, nothing is asked of
\* the database, the syntax score is the one of the syntax stage and
\* correctness_issues stays empty.
C6_NoConnectionNoExecution ==
    (Returned("analyze_query_quality") /\ Falsy(call.connection_info))
        => /\ ret.execution_results = EmptyDict
           /\ db_log = <<>>
           /\ ret.analysis.syntax_score = pre_execution_syntax_score
           /\ ret.feedback.correctness_issues = <<>>

\* a SELECT analysed without connection_info where pyodbc is installed
C6_Witness ==
    /\ Returned("analyze_query_quality")
    /\ Falsy(call.connection_info)
    /\ PYODBC_AVAILABLE
    /\ call.sql_query = "select * from orders "
    /\ ret.analysis.syntax_score = 85
    /\ ret.execution_results = EmptyDict

\* C7, as claimed: when the database fails the statement with a message, the feedback
\* reports the failure, correctness_issues contains the message, the syntax score is
\* strictly lower than before the execution, and the verdict is complete.
C7_FailureAlwaysLowersSyntax ==
    (/\ ReturnedTested
     /\ call.db.outcome = "execute_raises"
     /\ executed_statements # {}
     /\ ~ret.execution_results.success)
        => /\ \E i \in DOMAIN ret.feedback.correctness_issues :
                 ret.feedback.correctness_issues[i] = "Query execution failed: " \o ret.execution_results.error
           /\ ret.analysis.syntax_score < pre_execution_syntax_score
           /\ Len(ret.recommendations) >= 1

\* C7, amended: when the execution fails with a message, the feedback reports the
\* failure, correctness_issues contains the message, the syntax score is the score
\* before the execution less 30 and not below 0 (strictly lower when that score was
\* above 0, still 0 when it was 0), and the verdict is complete.
C7_FailureLowersSyntaxDownToZero ==
    (ReturnedTested /\ ~ret.execution_results.success)
        => /\ ret.feedback.correctness_issues =
                 << "Query execution failed: " \o ret.execution_results.error >>
           /\ ret.analysis.syntax_score = Max(0, pre_execution_syntax_score - 30)
           /\ pre_execution_syntax_score > 0 => ret.analysis.syntax_score < pre_execution_syntax_score
           /\ pre_execution_syntax_score = 0 => ret.analysis.syntax_score = 0
           /\ ret.analysis.overall_score =
                 3 * ret.analysis.syntax_score + 3 * ret.analysis.semantic_score
                   + 2 * ret.analysis.performance_score + 2 * ret.analysis.security_score
           /\ Len(ret.recommendations) >= 1

\* the database fails the statement of a query whose syntax score was 100
C7_Witness ==
    /\ ReturnedTested
    /\ call.sql_query = "SELECT id FROM users WHERE id = @id "
    /\ call.db.outcome = "execute_raises"
    /\ ret.execution_results = execution_failure("Invalid column name 'foo'")
    /\ ret.feedback.correctness_issues = <<"Query execution failed: Invalid column name 'foo'">>
    /\ ret.analysis.syntax_score = 70

\* C8, as claimed: when the execution succeeds, the syntax score of the feedback is
\* higher than the score of the syntax stage, whatever that score.
C8_SuccessAlwaysRaisesSyntax ==
    (ReturnedTested /\ ret.execution_results.success)
        => ret.analysis.syntax_score > pre_execution_syntax_score

\* C8, amended: when the execution succeeds, the syntax score of the feedback is the
\* score of the syntax stage plus 20 and not above 100: higher when that score was
\* below 100, still 100 when it was 100.
C8_SuccessRaisesSyntaxUpToHundred ==
    (ReturnedTested /\ ret.execution_results.success)
        => /\ ret.analysis.syntax_score = Least(100, pre_execution_syntax_score + 20)
           /\ pre_execution_syntax_score < 100 => ret.analysis.syntax_score > pre_execution_syntax_score
           /\ pre_execution_syntax_score = 100 => ret.analysis.syntax_score = 100
           /\ ret.feedback.correctness_issues = <<>>

\* a successful execution lifts a syntax score of 55 to 75
C8_Witness ==
    /\ ReturnedTested
    /\ ret.execution_results.success
    /\ pre_execution_syntax_score = 55
    /\ ret.analysis.syntax_score = 75

\* C9, as claimed: once connected, _test_query_execution passes the statement to the
\* database exactly when is_read_only_query finds it read-only.
C9_ExecutesExactlyReadOnly ==
    (/\ ReturnedTested
     /\ PYODBC_AVAILABLE
     /\ call.db.outcome # "connect_raises"
     /\ call.sql_query # None)
        => (executed_statements # {} <=> is_read_only_query(call.sql_query))

\* C9, amended: _test_query_execution never executes a statement that is not
\* read-only; once connected it executes exactly the texts that, trimmed, start with
\* SELECT in any letter case, and it turns away every other text the classifier
\* accepts (a WITH query, a SELECT behind a comment) with the "Only SELECT" error.
C9_ExecutesOnlyLeadingSelect ==
    ReturnedTested
        => /\ executed_statements # {} => is_read_only_query(call.sql_query)
           /\ (PYODBC_AVAILABLE /\ call.db.outcome # "connect_raises" /\ call.sql_query # None)
                 => /\ executed_statements # {}
                          <=> startswith(upper(strip(call.sql_query)), "SELECT")
                    /\ (is_read_only_query(call.sql_query) /\ executed_statements = {})
                          => ret.execution_results =
                                execution_failure("Only SELECT queries are executed for safety")

\* a WITH query, read-only for the classifier, is not executed
C9_Witness ==
    /\ ReturnedTested
    /\ PYODBC_AVAILABLE
    /\ call.db.outcome = "rows"
    /\ call.sql_query = "WITH c AS (SELECT 1) SELECT id FROM users WHERE id = @id "
    /\ is_read_only_query(call.sql_query)
    /\ db_log = <<[event |-> "connect"]>>
    /\ ret.execution_results = execution_failure("Only SELECT queries are executed for safety")

\* C10, as claimed: every statement that _test_query_execution, or execute_query with
\* a limit other than 0, passes to cursor.execute has a row-limiting clause.
C10_ExecutedStatementsAreLimited ==
    (\/ Returned("analyze_query_quality")
     \/ Returned("execute_query") /\ call.limit # 0)
        => \A statement \in executed_statements : has_row_limit(statement)

\* how many calls of the kind the current call made to pyodbc
calls_made(event) == Cardinality({i \in DOMAIN db_log : db_log[i].event = event})

\* C11: with a connection_info, _test_query_execution opens at most one connection and
\* executes at most one statement; after a failure nothing more is asked of the
\* database, and the failure is recorded once: one error in execution_results, one
\* entry in correctness_issues.
C11_OneAttemptOneRecord ==
    ReturnedTested
        => /\ calls_made("connect") <= 1
           /\ calls_made("execute") <= 1
           /\ calls_made("execute") = 1 => db_log = <<[event |-> "connect"], db_log[2]>>
           /\ ~ret.execution_results.success
                 => /\ "error" \in DOMAIN ret.execution_results
                    /\ Len(ret.feedback.correctness_issues) = 1
           /\ call.db.outcome = "connect_raises" => calls_made("execute") = 0

\* the database fails the one statement executed; the failure is recorded once
C11_Witness ==
    /\ ReturnedTested
    /\ call.db.outcome = "execute_raises"
    /\ db_log = <<[event |-> "connect"],
                  [event |-> "execute", statement |-> "SELECT TOP 100 id FROM users WHERE id = @id "]>>
    /\ ret.execution_results.error = "Invalid column name 'foo'"
    /\ Len(ret.feedback.correctness_issues) = 1

\* C12, as claimed: a stage that raises returns the score 50 and the single finding
\* "<stage> analysis error: <message>", and the other stages' results are returned.
\* A query of None makes the syntax, performance and security stages raise (and the
\* semantic stage, when there is a natural-language text).
C12_RaisingStageScoresFifty ==
    (/\ Returned("analyze_query_quality")
     /\ call.sql_query = None
     /\ Falsy(call.connection_info))
        => /\ ret.analysis.syntax_score = 50
           /\ ret.feedback.syntax_issues = <<"Syntax analysis error: " \o NoneError("upper")>>
           /\ ret.analysis.performance_score = 50
           /\ ret.feedback.performance_suggestions = <<"Performance analysis error: " \o NoneError("upper")>>
           /\ ret.analysis.security_score = 50
           /\ ret.feedback.security_warnings = <<"Security analysis error: " \o NoneError("upper")>>
           /\ ret.analysis.semantic_score = IF call.natural_language = "" THEN 70 ELSE 50
           /\ Len(ret.feedback.semantic_issues) = 1

\* C13: every call of analyze_query_quality and of validate_and_optimize returns a
\* complete verdict: every field is there, the scores are computed, the
\* recommendations are not empty, the execution is reported when a connection was
\* given, and no error of a stage, of the verifier or of the recommender takes the
\* place of the verdict.
C13_CompleteVerdict ==
    /\ Returned("analyze_query_quality")
          => /\ DOMAIN ret = DOMAIN initial_feedback(call.sql_query, call.natural_language)
             /\ DOMAIN ret.analysis = {"syntax_score", "semantic_score", "performance_score",
                                       "security_score", "overall_score"}
             /\ \A score \in DOMAIN ret.analysis : ret.analysis[score] \in Nat
             /\ DOMAIN ret.feedback = {"syntax_issues", "semantic_issues", "performance_suggestions",
                                       "security_warnings", "correctness_issues"}
             /\ ret.analysis.overall_score =
                   3 * ret.analysis.syntax_score + 3 * ret.analysis.semantic_score
                     + 2 * ret.analysis.performance_score + 2 * ret.analysis.security_score
             /\ Len(ret.recommendations) >= 1
             /\ ~Falsy(call.connection_info) => "success" \in DOMAIN ret.execution_results
             /\ ret.query = call.sql_query
    /\ Returned("validate_and_optimize")
          => /\ DOMAIN ret = {"is_valid", "errors", "warnings", "suggestions", "optimized_sql",
                              "security_issues"}
             /\ ret.is_valid \in BOOLEAN
             /\ ~ret.is_valid => Len(ret.errors) >= 1
             /\ call.sqlparse = "parse_raises" /\ gate_errors(call.sql_query) = <<>>
                   => ret.errors = <<"SQL parsing error: sqlparse failure">>

\* a query of None: three stages and the verifier raise, and the verdict is complete
C13_Witness ==
    /\ Returned("analyze_query_quality")
    /\ call.sql_query = None
    /\ call.natural_language = ""
    /\ PYODBC_AVAILABLE
    /\ call.db.outcome = "rows"
    /\ ret.execution_results = execution_failure(NoneError("strip"))
    /\ ret.analysis = [syntax_score |-> 0, semantic_score |-> 70, performance_score |-> 50,
                       security_score |-> 50, overall_score |-> 410]
    /\ Len(ret.recommendations) = 4

\* what a warning of _analyze_security takes from the score (the good-practice note adds)
security_penalty(warning) ==
    IF warning = "Hardcoded credentials detected" THEN 40
    ELSE IF warning = "Overly permissive WHERE clause (1=1)" THEN 20
    ELSE IF warning = "Good: Parameterized query detected" THEN 0 - 10
    ELSE 30

\* the sum of what the warnings of a result take from the score
security_penalties(result) ==
    Sum(Len(result.warnings), [i \in DOMAIN result.warnings |-> security_penalty(result.warnings[i])])

\* the patterns a result reports as matched
matched_patterns(result) ==
    {result.warnings[i] : i \in DOMAIN result.warnings} \ {"Good: Parameterized query detected"}

\* whether a result reports a parameter marker
has_marker(result) ==
    \E i \in DOMAIN result.warnings : result.warnings[i] = "Good: Parameterized query detected"

\* C14: the score of _analyze_security is 100 less the penalty of every distinct
\* matched pattern, not below 0; a text with one more fragment matches every pattern
\* matched before and, the parameter marker being equal, scores no higher; when the
\* fragment matches no new pattern the score stays the same.
C14_SecurityScoreMonotone ==
    Returned("_analyze_security")
        => /\ ret.result.score = Max(0, 100 - security_penalties(ret.result))
           /\ ret.extended.score = Max(0, 100 - security_penalties(ret.extended))
           /\ Cardinality(matched_patterns(ret.extended)) + (IF has_marker(ret.extended) THEN 1 ELSE 0)
                 = Len(ret.extended.warnings)
           /\ matched_patterns(ret.result) \subseteq matched_patterns(ret.extended)
           /\ has_marker(ret.result) = has_marker(ret.extended)
                 => ret.extended.score <= ret.result.score
           /\ (/\ has_marker(ret.result) = has_marker(ret.extended)
               /\ matched_patterns(ret.result) = matched_patterns(ret.extended))
                 => ret.extended.score = ret.result.score
           /\ (matched_patterns(ret.result) = {} /\ ~has_marker(ret.result)) => ret.result.score = 100

\* two patterns matched (UNION, credentials: 100 - 70), then two more in one fragment:
\* four distinct warnings, and the score at its floor
C14_Witness ==
    /\ Returned("_analyze_security")
    /\ call.sql_query = "UNION SELECT x PASSWORD = 'x' "
    /\ call.addition = "'; DROP TABLE t -- "
    /\ ret.result.score = 30
    /\ ret.extended.score = 0
    /\ Cardinality(matched_patterns(ret.extended)) = 4

\* C15, as claimed: _analyze_security gives the same score and warnings for a text and
\* for the text in lower or upper case, and finds xp_cmdshell and a parameter marker
\* in any letter case.
C15_SecurityIgnoresCase ==
    Returned("_analyze_security")
        => /\ ret.lowered = ret.result
           /\ ret.uppered = ret.result
           /\ contains(lower(call.sql_query), "xp_cmdshell")
                 => "Command shell execution" \in matched_patterns(ret.result)
           /\ (contains(lower(call.sql_query), "where id = @p") \/ contains(lower(call.sql_query), "where id = ?"))
                 => has_marker(ret.result)

\* whether the performance stage's good-practice patterns are in a query:
\* an INDEX hint, or LIMIT|TOP\s+\d+
has_performance_bonus(sql_query) ==
    LET u == upper(sql_query)
    IN \/ contains(u, "INDEX")
       \/ contains(u, "LIMIT")
       \/ DigitPlus(u, WsPlus(u, Lit(u, Anywhere(u), "TOP"))) # {}

\* the suggestions of a result, as a set
suggested(suggestions) == {suggestions[i] : i \in DOMAIN suggestions}

\* C16: for a query that contains SELECT * and no good-practice pattern, the
\* performance stage suggests to replace SELECT * and scores below the base of 80.
C16_SelectStarWarnedAndBelowBase ==
    (/\ Returned("_analyze_performance")
     /\ contains(upper(call.sql_query), "SELECT *")
     /\ ~has_performance_bonus(call.sql_query))
        => /\ "Replace SELECT * with specific column names to improve performance"
                 \in suggested(ret.result.suggestions)
           /\ ret.result.score < 80

\* the claim's example: SELECT * alone, 80 - 15
C16_Witness ==
    /\ Returned("_analyze_performance")
    /\ call.sql_query = "SELECT * FROM orders"
    /\ ret.result = [score |-> 65,
                     suggestions |-> <<"Replace SELECT * with specific column names to improve performance">>]

\* C17, as claimed: where the WHERE clause wraps a column in a function call (what
\* the validator's analysis reports), the scorer's performance stage emits a
\* suggestion for it and scores the query lower than the query with the bare column.
C17_FunctionInWhereScoresLower ==
    (/\ Returned("_analyze_performance")
     /\ call.sql_query # call.plain_query
     /\ "Functions in WHERE clause may prevent index usage" \in suggested(ret.validator)
     /\ ret.plain.score > 0)
        => /\ ret.result.score < ret.plain.score
           /\ ret.result.suggestions # ret.plain.suggestions

\* the issues of a result, as a set
raised(issues) == {issues[i] : i \in DOMAIN issues}

\* C18, as claimed: when the request says 'total' and 'last month' and the SQL has
\* neither SUM or COUNT nor a date function, the semantic stage reports the missing
\* aggregate and the missing date filter, and scores below 70.
C18_TotalLastMonthBothFlagged ==
    (/\ Returned("_analyze_semantic_alignment")
     /\ call.sql_query # None
     /\ contains(lower(call.natural_language), "total")
     /\ contains(lower(call.natural_language), "last month")
     /\ ~\E keyword \in {"SUM", "COUNT", "DATE", "GETDATE", "NOW()", "CURDATE"} :
            contains(upper(call.sql_query), keyword))
        => /\ "Natural language suggests 'total' but SQL query doesn't reflect this" \in raised(ret.issues)
           /\ "Natural language mentions time constraints but query lacks date filtering" \in raised(ret.issues)
           /\ ret.score < 70

\* C19: without a natural-language text the semantic stage returns 70 and the one
\* note that no context was given, whatever the SQL (None included) and the schema.
C19_NoRequestNeutralScore ==
    (Returned("_analyze_semantic_alignment") /\ call.natural_language = "")
        => ret = [score |-> 70, issues |-> <<"No natural language context provided">>]

\* no request text, with a query that is not a string and a schema that is given
C19_Witness ==
    /\ Returned("_analyze_semantic_alignment")
    /\ call.natural_language = ""
    /\ call.sql_query = None
    /\ call.schema_context # ""
    /\ ret.score = 70
    /\ Len(ret.issues) = 1

\* the four band messages
band_messages ==
    {"Excellent query! This SQL appears to be well-structured and efficient.",
     "Good query with room for minor improvements.",
     "Query needs attention in several areas for optimal performance.",
     "Query requires significant improvements before production use."}

\* C20: the recommendations of a verdict are never empty; the first is the message
\* of the band of the overall score (90 and above, 70 and above, 50 and above,
\* below 50, the score in tenths here), and no other recommendation is a band message.
C20_FirstRecommendationIsBand ==
    Returned("analyze_query_quality")
        => LET overall == ret.analysis.overall_score
               recommendations == ret.recommendations
           IN /\ Len(recommendations) >= 1
              /\ recommendations[1] =
                    (IF overall >= 900
                     THEN "Excellent query! This SQL appears to be well-structured and efficient."
                     ELSE IF overall >= 700 THEN "Good query with room for minor improvements."
                     ELSE IF overall >= 500
                     THEN "Query needs attention in several areas for optimal performance."
                     ELSE "Query requires significant improvements before production use.")
              /\ \A i \in 2..Len(recommendations) : recommendations[i] \notin band_messages

\* an overall score of exactly 50, the lowest of its band, with targeted
\* recommendations after the band message
C20_Witness ==
    /\ Returned("analyze_query_quality")
    /\ ret.analysis.overall_score = 500
    /\ ret.recommendations[1] = "Query needs attention in several areas for optimal performance."
    /\ Len(ret.recommendations) > 1

\* the execution-based recommendations
execution_notes ==
    {"Query execution time is high - consider optimization.", "Good: Query executes efficiently."}

\* the recommendations of a verdict past the band message, the execution note left out
targeted_part(recommendations) ==
    SelectSeq(Tail(recommendations), LAMBDA r : r \notin execution_notes)

\* C21: past the band message the recommendations hold, in the order syntax,
\* semantic, performance, security, one targeted recommendation for each score of the
\* verdict below its threshold (70, 70, 70, 80) and none for a score at or above it;
\* the syntax score is the one the verdict returns, adjusted by the execution.
C21_TargetedRecommendations ==
    Returned("analyze_query_quality")
        => LET scores == ret.analysis
               syntax == IF scores.syntax_score < 70
                         THEN <<"Review SQL syntax and fix any structural issues.">> ELSE <<>>
               semantic == IF scores.semantic_score < 70
                           THEN <<"Ensure the query accurately reflects the natural language intent.">> ELSE <<>>
               performance == IF scores.performance_score < 70
                              THEN <<"Consider performance optimizations like indexing and query restructuring.">>
                              ELSE <<>>
               security == IF scores.security_score < 80
                           THEN <<"Address security concerns before using this query in production.">> ELSE <<>>
           IN /\ ret.recommendations # <<>>
              /\ targeted_part(ret.recommendations) = syntax \o semantic \o performance \o security
              /\ \A i \in 2..Len(ret.recommendations) :
                    ret.recommendations[i] \in execution_notes => i = Len(ret.recommendations)

\* a failed execution takes the syntax score from 70 or more to less than 70: the
\* syntax recommendation is given, and another one after it
C21_Witness ==
    /\ ReturnedTested
    /\ pre_execution_syntax_score >= 70
    /\ ret.analysis.syntax_score < 70
    /\ Len(targeted_part(ret.recommendations)) >= 2
    /\ targeted_part(ret.recommendations)[1] = "Review SQL syntax and fix any structural issues."

\* the execution-based recommendations among the recommendations of a verdict
notes_given(recommendations) == SelectSeq(recommendations, LAMBDA r : r \in execution_notes)

\* C22, as claimed: whenever a statement was sent to the database the recommendations
\* end with an execution note chosen by the recorded time (high above 5 s, efficient
\* below 0.1 s), and there is no note when none was sent.
C22_AttemptAlwaysNoted ==
    Returned("analyze_query_quality")
        => LET recommendations == ret.recommendations
               exec_time == Get(ret.execution_results, "execution_time", 0)
           IN IF executed_statements # {}
              THEN /\ recommendations[Len(recommendations)] \in execution_notes
                   /\ exec_time > 5000
                         => recommendations[Len(recommendations)]
                               = "Query execution time is high - consider optimization."
                   /\ exec_time < 100
                         => recommendations[Len(recommendations)] = "Good: Query executes efficiently."
              ELSE notes_given(recommendations) = <<>>

\* C22, amended: the recommendations end with an execution note exactly when the
\* execution succeeded and took more than 5 s (the 'consider optimization' note) or
\* less than 0.1 s (the affirmation); there is no note when no execution was
\* attempted, when it failed, or when it took between 0.1 s and 5 s.
C22_SuccessNotedByTime ==
    Returned("analyze_query_quality")
        => LET recommendations == ret.recommendations
               succeeded == Get(ret.execution_results, "success", FALSE)
               exec_time == Get(ret.execution_results, "execution_time", 0)
               expected == IF succeeded /\ exec_time > 5000
                           THEN <<"Query execution time is high - consider optimization.">>
                           ELSE IF succeeded /\ exec_time < 100
                           THEN <<"Good: Query executes efficiently.">>
                           ELSE <<>>
           IN /\ notes_given(recommendations) = expected
              /\ expected # <<>> => recommendations[Len(recommendations)] = expected[1]
              /\ succeeded => executed_statements # {}

\* a statement was executed and failed: a time of 0 is recorded and no note is given
C22_Witness ==
    /\ ReturnedTested
    /\ executed_statements # {}
    /\ ret.execution_results.success = FALSE
    /\ ret.execution_results.execution_time = 0
    /\ notes_given(ret.recommendations) = <<>>

---------------------------------------------------------------------------
(* services/query_feedback_service.py: the history and its two readers     *)

\* the most entries the history holds in the model
MaxHistory == 2

\* Python's sequence[start:] for any integer start
slice_from(sequence, start) ==
    LET n == Len(sequence)
        skipped == IF start < 0 THEN Max(0, n + start) ELSE Least(n, start)
    IN SubSeq(sequence, skipped + 1, n)

\* the issues get_feedback_summary collects from the entries, in the order it extends its list
RECURSIVE all_issues(_)
all_issues(recent_feedback) ==
    IF recent_feedback = <<>> THEN <<>>
    ELSE LET feedback == recent_feedback[Len(recent_feedback)]
         IN all_issues(SubSeq(recent_feedback, 1, Len(recent_feedback) - 1))
              \o feedback.feedback.syntax_issues \o feedback.feedback.semantic_issues
              \o feedback.feedback.performance_suggestions \o feedback.feedback.security_warnings

\* sorted(issue_counts.items(), key=lambda x: x[1], reverse=True)[:5]: the dict keeps
\* the issues in the order of their first occurrence, and the sort is stable
common_issues(issues) ==
    LET firsts == {i \in DOMAIN issues : \A j \in 1..(i - 1) : issues[j] # issues[i]}
        issue_count(i) == Cardinality({j \in DOMAIN issues : issues[j] = issues[i]})
        rank(i) == 1 + Cardinality({j \in firsts : \/ issue_count(j) > issue_count(i)
                                                   \/ issue_count(j) = issue_count(i) /\ j < i})
        ranked(k) == CHOOSE i \in firsts : rank(i) = k
    IN [k \in 1..Least(5, Cardinality(firsts)) |-> <<issues[ranked(k)], issue_count(ranked(k))>>]

\* sum(...) / len(recent_feedback), kept as the pair of the sum and the divisor
average_score(recent_feedback, name) ==
    <<Sum(Len(recent_feedback), [i \in DOMAIN recent_feedback |-> recent_feedback[i].analysis[name]]),
      Len(recent_feedback)>>

get_feedback_summary(history, limit) ==
    LET recent_feedback == IF history # <<>> THEN slice_from(history, 0 - limit) ELSE <<>>
    IN IF recent_feedback = <<>>
       THEN [message |-> "No feedback data available"]
       ELSE [total_queries_analyzed |-> Len(recent_feedback),
             average_scores |-> [syntax |-> average_score(recent_feedback, "syntax_score"),
                                 semantic |-> average_score(recent_feedback, "semantic_score"),
                                 performance |-> average_score(recent_feedback, "performance_score"),
                                 security |-> average_score(recent_feedback, "security_score"),
                                 overall |-> average_score(recent_feedback, "overall_score")],
             common_issues |-> common_issues(all_issues(recent_feedback)),
             recent_feedback |-> recent_feedback]

\* feedback['user_feedback'] = {...}; the timestamp is left out, as in the entries
with_user_feedback(feedback, user_rating, user_comments) ==
    [key \in DOMAIN feedback \cup {"user_feedback"} |->
        IF key = "user_feedback" THEN [rating |-> user_rating, comments |-> user_comments]
        ELSE feedback[key]]

\* submit_user_feedback: feedback.get('id') is None for an entry without an id
submit_user_feedback(history, query_id, user_rating, user_comments) ==
    LET matching == {i \in DOMAIN history : Get(history[i], "id", None) = query_id}
    IN IF matching = {}
       THEN [returned |-> FALSE, history |-> history]
       ELSE [returned |-> TRUE,
             history |-> [history EXCEPT ![Min(matching)] =
                             with_user_feedback(history[Min(matching)], user_rating, user_comments)]]

\* the queries analysed in a sequence of calls
ServiceQueries == {"select * from orders ", "DROP TABLE users ", None}

\* the limits of /feedback/summary: request.args.get('limit', 10, type=int)
SummaryLimits == {0 - 1, 0, 1, 2, 10}

\* the query_id of /feedback/submit: any JSON value the request carries under 'query_id'
QueryIds == {None, "1"}

\* the calls of a sequence: analyses without a connection, summaries, user feedback
ServiceCalls ==
    [op : {"analyze_query_quality"}, sql_query : ServiceQueries, schema_context : {""},
     natural_language : {""}, connection_info : {EmptyDict}, db : {NoDb}]
    \cup [op : {"get_feedback_summary"}, limit : SummaryLimits]
    \cup [op : {"submit_user_feedback"}, query_id : QueryIds, user_rating : {1, 5}, user_comments : {""}]

\* the next call arrives once the last one has returned
Request ==
    /\ pc = "returned"
    /\ call' \in ServiceCalls
    /\ call'.op = "analyze_query_quality" => Len(feedback_history) < MaxHistory
    /\ pc' = "called"
    /\ ret' = EmptyDict
    /\ db_log' = <<>>
    /\ UNCHANGED <<feedback_history, PYODBC_AVAILABLE, query_history_storage, next_query_id, requests>>

\* QueryFeedbackService.get_feedback_summary returns its summary
GetFeedbackSummary ==
    /\ pc = "called"
    /\ call.op = "get_feedback_summary"
    /\ ret' = get_feedback_summary(feedback_history, call.limit)
    /\ pc' = "returned"
    /\ UNCHANGED <<call, feedback_history, db_log, PYODBC_AVAILABLE, query_history_storage, next_query_id, requests>>

\* QueryFeedbackService.submit_user_feedback attaches the rating, or finds no entry
SubmitUserFeedback ==
    /\ pc = "called"
    /\ call.op = "submit_user_feedback"
    /\ LET done == submit_user_feedback(feedback_history, call.query_id, call.user_rating, call.user_comments)
       IN /\ ret' = [returned |-> done.returned]
          /\ feedback_history' = done.history
    /\ pc' = "returned"
    /\ UNCHANGED <<call, db_log, PYODBC_AVAILABLE, query_history_storage, next_query_id, requests>>

\* a service freshly constructed, then any sequence of calls
InitService == InitCalled(ServiceCalls, {TRUE})

NextService == Request \/ AnalyzeQueryQuality \/ GetFeedbackSummary \/ SubmitUserFeedback

SpecService == InitService /\ [][NextService]_vars

\* C23, as claimed: in any sequence of analyze_query_quality, get_feedback_summary and
\* submit_user_feedback calls no step removes, reorders or changes an entry of the
\* history; an analysis appends its verdict as the last entry, with the scores the
\* same call gets from a fresh service, and the other calls leave the history as it is.
C23_HistoryAppendOnly ==
    [][/\ Len(feedback_history') >= Len(feedback_history)
       /\ \A i \in DOMAIN feedback_history : feedback_history'[i] = feedback_history[i]
       /\ IF pc = "called" /\ call.op = "analyze_query_quality"
          THEN /\ feedback_history' = Append(feedback_history, ret')
               /\ ret'.analysis = analyze_query_quality(call.sql_query, call.schema_context,
                                      call.natural_language, call.connection_info,
                                      PYODBC_AVAILABLE, call.db).feedback.analysis
          ELSE Len(feedback_history') = Len(feedback_history)]_vars

\* C28, as claimed: no entry that analyze_query_quality stores has an id, so every
\* call of submit_user_feedback returns false and leaves the history unchanged.
C28_SubmitNeverMatches ==
    [][(pc = "called" /\ call.op = "submit_user_feedback")
          => (ret'.returned = FALSE /\ feedback_history' = feedback_history)]_vars

\* whether the counts of a list of (issue, count) pairs never increase
non_increasing(pairs) == \A k \in 1..(Len(pairs) - 1) : pairs[k][2] >= pairs[k + 1][2]

\* C29, as claimed: for every limit >= 0, 0 included, get_feedback_summary summarises
\* the last min(limit, length of the history) entries, total_queries_analyzed is that
\* number, and common_issues holds at most 5 issues, their counts never increasing.
C29_SummaryWithinLimit ==
    (Returned("get_feedback_summary") /\ call.limit >= 0)
        => LET summarised == Least(call.limit, Len(feedback_history))
               recent == SubSeq(feedback_history, Len(feedback_history) - summarised + 1,
                                Len(feedback_history))
           IN /\ Get(ret, "recent_feedback", <<>>) = recent
              /\ Get(ret, "total_queries_analyzed", 0) = summarised
              /\ Len(Get(ret, "common_issues", <<>>)) <= 5
              /\ non_increasing(Get(ret, "common_issues", <<>>))

---------------------------------------------------------------------------
(* services/sql_validator.py: the classifier, the syntax check and the     *)
(* optimizer, called one at a time                                         *)

CheckedFragments ==
    {"SELECT id FROM t ", "with c as (select 1) ", "-- c\n", "-- c", "/* c */", "SEL/* c */ECT 1 ",
     "selected ", "WITHDRAW x ", "insert into t ", "where (x = 'a ", "(", "'", " "}

CheckedTexts == Texts(CheckedFragments, MaxParts) \cup {None}

SyntaxCalls == [op : {"_validate_syntax"}, sql_query : CheckedTexts]

ClassifierCalls == [op : {"is_read_only_query"}, sql_query : CheckedTexts]

\* validate_and_optimize, then _validate_syntax on the text and on the verdict's optimized_sql
RoundTripCalls == [op : {"optimized_sql round trip"}, sql_query : CheckedTexts, sqlparse : SqlparseOutcomes]

\* SQLValidator._validate_syntax returns its errors
ValidateSyntax ==
    /\ pc = "called"
    /\ call.op = "_validate_syntax"
    /\ ret' = [errors |-> _validate_syntax(call.sql_query, [ttype |-> "None"])]
    /\ pc' = "returned"
    /\ UNCHANGED <<call, feedback_history, db_log, PYODBC_AVAILABLE, query_history_storage, next_query_id, requests>>

\* SQLValidator.is_read_only_query returns its answer
IsReadOnlyQuery ==
    /\ pc = "called"
    /\ call.op = "is_read_only_query"
    /\ ret' = [returned |-> is_read_only_query(call.sql_query)]
    /\ pc' = "returned"
    /\ UNCHANGED <<call, feedback_history, db_log, PYODBC_AVAILABLE, query_history_storage, next_query_id, requests>>

\* validate_and_optimize returns its verdict; _validate_syntax is then run on the
\* submitted text and on the verdict's optimized_sql
ValidateOptimized ==
    /\ pc = "called"
    /\ call.op = "optimized_sql round trip"
    /\ LET verdict == validate_and_optimize(call.sql_query, call.sqlparse)
       IN ret' = [verdict |-> verdict,
                  original |-> _validate_syntax(call.sql_query, [ttype |-> "None"]),
                  optimized |-> _validate_syntax(verdict.optimized_sql, [ttype |-> "None"])]
    /\ pc' = "returned"
    /\ UNCHANGED <<call, feedback_history, db_log, PYODBC_AVAILABLE, query_history_storage, next_query_id, requests>>

InitChecks == InitCalled(SyntaxCalls \cup ClassifierCalls \cup RoundTripCalls, {TRUE})

NextChecks == ValidateSyntax \/ IsReadOnlyQuery \/ ValidateOptimized

SpecChecks == InitChecks /\ [][NextChecks]_vars

\* C24, as claimed: _validate_syntax reports every failed check, and none for a text
\* that is_read_only_query finds read-only, with as many '(' as ')' and an even
\* number of single quotes.
C24_ReadOnlyBalancedNoErrors ==
    (/\ Returned("_validate_syntax")
     /\ is_read_only_query(call.sql_query)
     /\ count(call.sql_query, "(") = count(call.sql_query, ")")
     /\ count(call.sql_query, "'") % 2 = 0)
        => ret.errors = <<>>

\* C24, amended: the errors of _validate_syntax are exactly the failed checks, in the
\* order parentheses, single quotes, statement keyword, each reported whether or not
\* another failed; there is none for a text with as many '(' as ')', an even number of
\* single quotes and, in upper case, one of the statement keywords.
C24_ExactlyTheFailedChecks ==
    (Returned("_validate_syntax") /\ call.sql_query # None)
        => LET text == call.sql_query
               parentheses == IF count(text, "(") # count(text, ")")
                              THEN <<"Unbalanced parentheses in query">> ELSE <<>>
               quotes == IF count(text, "'") % 2 # 0
                         THEN <<"Unbalanced single quotes in query">> ELSE <<>>
               keyword == IF \A k \in StatementKeywords : ~contains(upper(text), k)
                          THEN <<"Query does not contain a recognized SQL statement type">> ELSE <<>>
           IN ret.errors = parentheses \o quotes \o keyword

\* a read-only text with a parenthesis and a quote left open: both are reported
C24_Witness ==
    /\ Returned("_validate_syntax")
    /\ is_read_only_query(call.sql_query)
    /\ ret.errors = <<"Unbalanced parentheses in query", "Unbalanced single quotes in query">>

\* C25, as claimed: is_read_only_query answers true exactly when the text, in upper
\* case, with every line comment (one that ends the text included) and every block
\* comment removed and the whitespace trimmed, begins with the whole word SELECT or
\* WITH; it answers false for None.
C25_LeadingTokenIsSelectOrWith ==
    Returned("is_read_only_query")
        => IF call.sql_query = None THEN ret.returned = FALSE
           ELSE LET cleaned == strip(remove_block_comments(
                                   remove_line_comments(upper(call.sql_query) \o "\n")))
                    token == SubSeq(cleaned, 1, WordEnd(cleaned, 1) - 1)
                IN ret.returned = (token \in {"SELECT", "WITH"})

\* C26: _validate_syntax gives the same errors for the optimized_sql of a verdict of
\* validate_and_optimize as for the submitted text; a verdict with errors carries the
\* submitted text itself, and a verdict without errors a text that ends with a
\* semicolon unless sqlparse.format raised.
C26_OptimizedRoundTrips ==
    Returned("optimized_sql round trip")
        => /\ ret.optimized = ret.original
           /\ ret.verdict.errors # <<>> => ret.verdict.optimized_sql = call.sql_query
           /\ (ret.verdict.errors = <<>> /\ call.sqlparse # "format_raises")
                 => endswith(ret.verdict.optimized_sql, ";")

\* a valid query that begins with a comment is reformatted and terminated, and the
\* syntax check finds nothing in either text
C26_Witness ==
    /\ Returned("optimized_sql round trip")
    /\ ret.verdict.is_valid
    /\ contains(call.sql_query, "--")
    /\ ret.verdict.optimized_sql # call.sql_query
    /\ endswith(ret.verdict.optimized_sql, ";")
    /\ ret.original = <<>>
    /\ ret.optimized = <<>>

\* C27, as claimed: for each intent keyword in the request the semantic stage raises
\* its issue exactly when the SQL has none of the constructs mapped to the keyword;
\* for 'recent' the constructs are ORDER BY ... DESC, TOP and LIMIT, so a query
\* ordered in descending order raises no issue for it.
C27_IntentConstructsRecognized ==
    (/\ Returned("_analyze_semantic_alignment")
     /\ call.natural_language # ""
     /\ call.sql_query # None)
        => LET nl_lower == lower(call.natural_language)
               sql_upper == upper(call.sql_query)
               ordered_descending ==
                   Lit(sql_upper, DotStar(sql_upper, Lit(sql_upper, Anywhere(sql_upper), "ORDER BY")), "DESC") # {}
               constructed(i) ==
                   IF intent_keywords[i][1] = "recent"
                   THEN ordered_descending \/ contains(sql_upper, "TOP") \/ contains(sql_upper, "LIMIT")
                   ELSE \E keyword \in intent_keywords[i][2] : contains(sql_upper, keyword)
           IN \A i \in 1..NumIntents :
                 contains(nl_lower, intent_keywords[i][1])
                    => (("Natural language suggests '" \o intent_keywords[i][1]
                            \o "' but SQL query doesn't reflect this") \in raised(ret.issues)
                          <=> ~constructed(i))

---------------------------------------------------------------------------
(* app.py: add_query_to_history under concurrent /convert requests. Flask's *)
(* server handles each request in a thread of its own, and the function    *)
(* takes no lock: a thread may be suspended between any two of its steps.  *)

\* how many /convert requests are served at once
MaxRequests == 3

Requests == 1..MaxRequests

\* query_record = {'id': next_query_id, ...}: the id is read when the dict is built
BuildRecord(t) ==
    /\ requests[t].at = "called"
    /\ requests' = [requests EXCEPT ![t] = [at |-> "built", query_record |-> [id |-> next_query_id, request |-> t]]]
    /\ UNCHANGED <<pc, call, ret, feedback_history, db_log, PYODBC_AVAILABLE, query_history_storage, next_query_id>>

\* query_history_storage.append(query_record)
AppendRecord(t) ==
    /\ requests[t].at = "built"
    /\ query_history_storage' = Append(query_history_storage, requests[t].query_record)
    /\ requests' = [requests EXCEPT ![t].at = "appended"]
    /\ UNCHANGED <<pc, call, ret, feedback_history, db_log, PYODBC_AVAILABLE, next_query_id>>

\* next_query_id += 1, first half: the global is loaded
LoadNextQueryId(t) ==
    /\ requests[t].at = "appended"
    /\ requests' = [requests EXCEPT ![t] = [at |-> "loaded", query_record |-> requests[t].query_record,
                                            loaded |-> next_query_id]]
    /\ UNCHANGED <<pc, call, ret, feedback_history, db_log, PYODBC_AVAILABLE, query_history_storage, next_query_id>>

\* next_query_id += 1, second half: the sum is stored; the record is returned
StoreNextQueryId(t) ==
    /\ requests[t].at = "loaded"
    /\ next_query_id' = requests[t].loaded + 1
    /\ requests' = [requests EXCEPT ![t] = [at |-> "returned", query_record |-> requests[t].query_record]]
    /\ UNCHANGED <<pc, call, ret, feedback_history, db_log, PYODBC_AVAILABLE, query_history_storage>>

\* the module freshly loaded, and every request at its call of add_query_to_history
InitConvert ==
    /\ pc = "idle"
    /\ call = EmptyDict
    /\ ret = EmptyDict
    /\ feedback_history = <<>>
    /\ db_log = <<>>
    /\ PYODBC_AVAILABLE = TRUE
    /\ query_history_storage = <<>>
    /\ next_query_id = 1
    /\ requests = [t \in Requests |-> [at |-> "called"]]

NextConvert ==
    \E t \in Requests : BuildRecord(t) \/ AppendRecord(t) \/ LoadNextQueryId(t) \/ StoreNextQueryId(t)

SpecConvert == InitConvert /\ [][NextConvert]_vars

\* C30, as claimed: whatever the interleaving of the requests, no two records of
\* query_history_storage have the same id, and once no call of add_query_to_history
\* is under way next_query_id is one more than the number of records.
C30_DistinctQueryIds ==
    /\ \A i, j \in DOMAIN query_history_storage :
          i # j => query_history_storage[i].id # query_history_storage[j].id
    /\ (\A t \in Requests : requests[t].at \in {"called", "returned"})
          => next_query_id = Len(query_history_storage) + 1

====
